---- MODULE Spec2Model ----
(***************************************************************************)
(* Multi-account OAuth pool of opencode-openai-multi-auth: the account     *)
(* store and selector (src/lib/accounts/manager.ts) and the request        *)
(* orchestrator (executeRequest / loader.fetch in src/unnamed/part_000).   *)
(*                                                                         *)
(* Time is counted in minutes: 60000 ms is one unit.  A field that is      *)
(* undefined in the program is 0 (numbers; JavaScript treats both as       *)
(* falsy in every test the code makes), "" (strings) or Null (objects).    *)
(* Account objects live in a per-process heap so that a request can keep   *)
(* a reference to an object that has left the pool.  The diagnostic        *)
(* fields email, planType, addedAt and lastUsed are never read by the      *)
(* selector or the orchestrator and are left out.  The usage snapshot      *)
(* tracker (CodexStatusManager in src/unnamed/part_001) has its own        *)
(* variable, usage.                                                        *)
(***************************************************************************)
EXTENDS Integers, Sequences, FiniteSets, TLC

VARIABLES now, disk, cfg, mgr, life, picks, th, gh, usage

vars == <<now, disk, cfg, mgr, life, picks, th, gh, usage>>

(***************************** bounds **************************************)
MaxAccounts == 3
MaxTime == 3
MaxPicks == 4
MaxMarks == 1

(************************ program constants ********************************)
FailureCeiling == 3
proactiveRefreshThresholdMs == 5
DefaultRetryAfter == 1

Procs == {"p1", "p2"}
Strategies == {"sticky", "round-robin", "hybrid"}
Models == {"m"}
TrackedModels == {"m", "n"}
NoModel == ""
Null == 0
Pids == {1, 2}
RetryAfters == {0, DefaultRetryAfter, 2}
InvalidGrantError == "Error: invalid_grant"
ErrorTexts == {"Token refresh failed", "401 Unauthorized", InvalidGrantError}

Min(S) == CHOOSE x \in S : \A y \in S : x <= y
Max2(a, b) == IF a >= b THEN a ELSE b

(************************** account objects ********************************)
\* Access tokens: absent, opaque (decodeJWT fails), or a JWT with its claims
\* (a claim that is 0 is absent from the token).
NoAccess == [kind |-> "none", userId |-> 0, accountId |-> 0]
OpaqueAccess == [kind |-> "opaque", userId |-> 0, accountId |-> 0]
Jwt(userId, accountId) == [kind |-> "jwt", userId |-> userId, accountId |-> accountId]

\* The object addAccount builds for a credential that matches no entry.
NewAccount(index, refreshToken, accessToken, expires) ==
  [index |-> index,
   userId |-> IF accessToken.kind = "jwt" THEN accessToken.userId ELSE 0,
   accountId |-> IF accessToken.kind = "jwt" THEN accessToken.accountId ELSE 0,
   refreshToken |-> refreshToken,
   access |-> accessToken,
   expires |-> expires,
   rateLimitResets |-> [mm \in TrackedModels |-> 0],
   globalRateLimitReset |-> 0,
   consecutiveFailures |-> 0,
   isRefreshing |-> FALSE,
   lastRefreshError |-> ""]

\* A manager right after construction.
NewManager ==
  [heap |-> <<>>, accounts |-> <<>>, activeIndex |-> 0,
   roundRobinCursor |-> 0, strategyInitialized |-> FALSE]

Count(M) == Len(M.accounts)
\* this.accounts[i], 0-based as in the program
At(M, i) == M.heap[M.accounts[i + 1]]
\* JSON.stringify of the account list
Serialized(M) == [i \in 1..Len(M.accounts) |-> M.heap[M.accounts[i]]]

MissingFile == [kind |-> "missing", version |-> 0, accounts |-> <<>>, activeAccountIndex |-> 0]

saveToDisk_NoActive(M) ==
  [kind |-> "json", version |-> 1, accounts |-> Serialized(M),
   activeAccountIndex |-> 0]

saveToDisk_FirstOnly(M) ==
  [kind |-> "json", version |-> 1,
   accounts |-> SubSeq(Serialized(M), 1, Min({1, Count(M)})),
   activeAccountIndex |-> M.activeIndex]

saveToDisk(M) ==
  [kind |-> "json", version |-> 1, accounts |-> Serialized(M),
   activeAccountIndex |-> M.activeIndex]

\* A parsed snapshot builds fresh objects; a missing file or a version other
\* than 1 leaves the manager as it is; an unparseable file resets it.
loadFromDisk(M, d) ==
  IF d.kind = "missing" THEN M
  ELSE IF d.kind = "garbage" THEN
    [M EXCEPT !.heap = <<>>, !.accounts = <<>>, !.activeIndex = 0,
              !.roundRobinCursor = 0, !.strategyInitialized = FALSE]
  ELSE IF d.version = 1 THEN
    [M EXCEPT !.heap = d.accounts,
              !.accounts = [i \in 1..Len(d.accounts) |-> i],
              !.activeIndex = d.activeAccountIndex,
              !.strategyInitialized = FALSE]
  ELSE M

normalizeIndex(M, index) ==
  IF Count(M) = 0 THEN 0
  ELSE IF index < 0 \/ index >= Count(M) THEN 0
  ELSE index

\* Variant: the per-model window is not consulted
isAccountAvailable_IgnoreModel(c, a, model, t) ==
  /\ ~(a.consecutiveFailures >= FailureCeiling)
  /\ ~(a.globalRateLimitReset # 0 /\ a.globalRateLimitReset > t)

isAccountAvailable(c, a, model, t) ==
  /\ ~(a.consecutiveFailures >= FailureCeiling)
  /\ ~(a.globalRateLimitReset # 0 /\ a.globalRateLimitReset > t)
  /\ ~(/\ model # NoModel
       /\ c.perModelRateLimits
       /\ a.rateLimitResets[model] # 0
       /\ a.rateLimitResets[model] > t)

\* max(globalReset, modelReset) as getLeastRateLimitedAccount combines them
ResetTime(c, a, model) ==
  IF model # NoModel /\ c.perModelRateLimits
  THEN Max2(a.globalRateLimitReset, a.rateLimitResets[model])
  ELSE a.globalRateLimitReset

\* Variant: the fallback does not skip accounts at the failure ceiling
getLeastRateLimitedAccount_NoCeiling(c, M, model) ==
  LET cand == 0..Count(M) - 1
      best == {i \in cand : \A j \in cand :
                 /\ ResetTime(c, At(M, i), model) <= ResetTime(c, At(M, j), model)
                 /\ (j < i => ResetTime(c, At(M, j), model) > ResetTime(c, At(M, i), model))}
  IN IF cand = {} THEN Null ELSE M.accounts[Min(best) + 1]

\* Variant: on a tie the fallback takes the last account in list order
getLeastRateLimitedAccount_LastOnTie(c, M, model) ==
  LET cand == {i \in 0..Count(M) - 1 : At(M, i).consecutiveFailures < FailureCeiling}
      best == {i \in cand : \A j \in cand :
                 /\ ResetTime(c, At(M, i), model) <= ResetTime(c, At(M, j), model)
                 /\ (j > i => ResetTime(c, At(M, j), model) > ResetTime(c, At(M, i), model))}
  IN IF cand = {} THEN Null ELSE M.accounts[Min(best) + 1]

\* The first account in list order with the strictly smallest reset time
\* among those below the failure ceiling; Null when there is none.
getLeastRateLimitedAccount(c, M, model) ==
  LET cand == {i \in 0..Count(M) - 1 : At(M, i).consecutiveFailures < FailureCeiling}
      best == {i \in cand : \A j \in cand :
                 /\ ResetTime(c, At(M, i), model) <= ResetTime(c, At(M, j), model)
                 /\ (j < i => ResetTime(c, At(M, j), model) > ResetTime(c, At(M, i), model))}
  IN IF cand = {} THEN Null ELSE M.accounts[Min(best) + 1]

\* Variant: the one-shot flag is not consulted
InitStrategyBegin_NotOneShot(c, M, d) ==
  IF Count(M) = 0 THEN
    [m |-> [M EXCEPT !.activeIndex = 0, !.roundRobinCursor = 0, !.strategyInitialized = TRUE],
     d |-> d, pending |-> FALSE, done |-> TRUE]
  ELSE
    LET M1 == [M EXCEPT !.activeIndex = normalizeIndex(M, M.activeIndex)]
    IN IF c.accountSelectionStrategy = "hybrid" /\ Count(M1) > 1
       THEN LET M2 == [M1 EXCEPT !.activeIndex = (M1.activeIndex + 1) % Count(M1)]
            IN [m |-> M2, d |-> saveToDisk(M2), pending |-> TRUE, done |-> FALSE]
       ELSE [m |-> M1, d |-> d, pending |-> FALSE, done |-> FALSE]

InitStrategyBegin_NoSave(c, M, d) ==
  IF M.strategyInitialized THEN [m |-> M, d |-> d, pending |-> FALSE, done |-> TRUE]
  ELSE IF Count(M) = 0 THEN
    [m |-> [M EXCEPT !.activeIndex = 0, !.roundRobinCursor = 0, !.strategyInitialized = TRUE],
     d |-> d, pending |-> FALSE, done |-> TRUE]
  ELSE
    LET M1 == [M EXCEPT !.activeIndex = normalizeIndex(M, M.activeIndex)]
    IN IF c.accountSelectionStrategy = "hybrid" /\ Count(M1) > 1
       THEN LET M2 == [M1 EXCEPT !.activeIndex = (M1.activeIndex + 1) % Count(M1)]
            IN [m |-> M2, d |-> d, pending |-> TRUE, done |-> FALSE]
       ELSE [m |-> M1, d |-> d, pending |-> FALSE, done |-> FALSE]

\* initializeStrategyState up to its first await: the early returns, the
\* clamp and the hybrid advance with its save.  "pending" says that the
\* function is suspended in `await this.saveToDisk()`.
InitStrategyBegin(c, M, d) ==
  IF M.strategyInitialized THEN [m |-> M, d |-> d, pending |-> FALSE, done |-> TRUE]
  ELSE IF Count(M) = 0 THEN
    [m |-> [M EXCEPT !.activeIndex = 0, !.roundRobinCursor = 0, !.strategyInitialized = TRUE],
     d |-> d, pending |-> FALSE, done |-> TRUE]
  ELSE
    LET M1 == [M EXCEPT !.activeIndex = normalizeIndex(M, M.activeIndex)]
    IN IF c.accountSelectionStrategy = "hybrid" /\ Count(M1) > 1
       THEN LET M2 == [M1 EXCEPT !.activeIndex = (M1.activeIndex + 1) % Count(M1)]
            IN [m |-> M2, d |-> saveToDisk(M2), pending |-> TRUE, done |-> FALSE]
       ELSE [m |-> M1, d |-> d, pending |-> FALSE, done |-> FALSE]

\* The rest of initializeStrategyState: PID offset, cursor, one-shot flag.
InitStrategyEnd(c, M) ==
  LET off == IF c.pidOffsetEnabled /\ Count(M) > 1 THEN c.pid % Count(M) ELSE 0
      act == IF c.pidOffsetEnabled /\ Count(M) > 1
             THEN (M.activeIndex + off) % Count(M) ELSE M.activeIndex
  IN [M EXCEPT !.activeIndex = act, !.roundRobinCursor = act,
               !.strategyInitialized = TRUE]

\* initializeStrategyState run to completion by a caller that nothing interleaves with
initializeStrategyState(c, M, d) ==
  LET b == InitStrategyBegin(c, M, d)
  IN IF b.done THEN [m |-> b.m, d |-> b.d]
     ELSE [m |-> InitStrategyEnd(c, b.m), d |-> b.d]

\* Variant: only the account at the scan start is tried
FirstAvailable_NoScan(c, M, model, t, start) ==
  IF isAccountAvailable(c, At(M, start % Count(M)), model, t)
  THEN start % Count(M) ELSE -1

\* Index of the first available account in wrap-around order from start, or -1
FirstAvailable(c, M, model, t, start) ==
  LET n == Count(M)
      hits == {k \in 0..n - 1 : isAccountAvailable(c, At(M, (start + k) % n), model, t)}
  IN IF hits = {} THEN -1 ELSE (start + Min(hits)) % n

\* Variant: the round-robin cursor stays on the account just returned
SelectAccount_NoAdvance(c, M, model, t) ==
  IF Count(M) = 0 THEN [m |-> M, res |-> Null]
  ELSE
    LET rr == c.accountSelectionStrategy = "round-robin"
        startIndex == IF rr THEN M.roundRobinCursor ELSE M.activeIndex
        index == FirstAvailable(c, M, model, t, startIndex)
        fallback == getLeastRateLimitedAccount(c, M, model)
    IN IF index >= 0 THEN
         [m |-> [M EXCEPT !.activeIndex = index,
                          !.roundRobinCursor = IF rr THEN index ELSE @],
          res |-> M.accounts[index + 1]]
       ELSE IF fallback # Null THEN
         [m |-> [M EXCEPT !.activeIndex = M.heap[fallback].index,
                          !.roundRobinCursor = IF rr THEN M.heap[fallback].index ELSE @],
          res |-> fallback]
       ELSE [m |-> M, res |-> Null]

\* Variant: the scan returns the account without making it the active one
SelectAccount_KeepsActive(c, M, model, t) ==
  IF Count(M) = 0 THEN [m |-> M, res |-> Null]
  ELSE
    LET n == Count(M)
        rr == c.accountSelectionStrategy = "round-robin"
        startIndex == IF rr THEN M.roundRobinCursor ELSE M.activeIndex
        index == FirstAvailable(c, M, model, t, startIndex)
        fallback == getLeastRateLimitedAccount(c, M, model)
    IN IF index >= 0 THEN
         [m |-> [M EXCEPT !.roundRobinCursor = IF rr THEN (index + 1) % n ELSE @],
          res |-> M.accounts[index + 1]]
       ELSE IF fallback # Null THEN
         [m |-> [M EXCEPT !.activeIndex = M.heap[fallback].index,
                          !.roundRobinCursor =
                             IF rr THEN (M.heap[fallback].index + 1) % n ELSE @],
          res |-> fallback]
       ELSE [m |-> M, res |-> Null]

\* getNextAvailableAccount after `await this.initializeStrategyState()`:
\* the scan, then the least-rate-limited fallback.
SelectAccount(c, M, model, t) ==
  IF Count(M) = 0 THEN [m |-> M, res |-> Null]
  ELSE
    LET n == Count(M)
        rr == c.accountSelectionStrategy = "round-robin"
        startIndex == IF rr THEN M.roundRobinCursor ELSE M.activeIndex
        index == FirstAvailable(c, M, model, t, startIndex)
        fallback == getLeastRateLimitedAccount(c, M, model)
    IN IF index >= 0 THEN
         [m |-> [M EXCEPT !.activeIndex = index,
                          !.roundRobinCursor = IF rr THEN (index + 1) % n ELSE @],
          res |-> M.accounts[index + 1]]
       ELSE IF fallback # Null THEN
         [m |-> [M EXCEPT !.activeIndex = M.heap[fallback].index,
                          !.roundRobinCursor =
                             IF rr THEN (M.heap[fallback].index + 1) % n ELSE @],
          res |-> fallback]
       ELSE [m |-> M, res |-> Null]

\* getNextAvailableAccount as one uninterrupted call
getNextAvailableAccount(c, M, d, model, t) ==
  IF Count(M) = 0 THEN [m |-> M, d |-> d, res |-> Null]
  ELSE LET i == initializeStrategyState(c, M, d)
           s == SelectAccount(c, i.m, model, t)
       IN [m |-> s.m, d |-> i.d, res |-> s.res]

markRateLimited_AlwaysGlobal(c, M, obj, retryAfterMs, model, t) ==
  [M EXCEPT !.heap[obj].globalRateLimitReset = t + retryAfterMs]

markRateLimited(c, M, obj, retryAfterMs, model, t) ==
  IF model # NoModel /\ c.perModelRateLimits
  THEN [M EXCEPT !.heap[obj].rateLimitResets[model] = t + retryAfterMs]
  ELSE [M EXCEPT !.heap[obj].globalRateLimitReset = t + retryAfterMs]

\* Sequence s without its k-th element (1-based)
Splice(s, k) == [i \in 1..Len(s) - 1 |-> IF i < k THEN s[i] ELSE s[i + 1]]

\* Variant: the remaining accounts keep their index fields
removeAccount_NoReindex(M, d, obj) ==
  LET pos == {k \in 1..Count(M) : M.heap[M.accounts[k]].index = M.heap[obj].index}
  IN IF pos = {} THEN [m |-> M, d |-> d]
     ELSE
       LET rest == Splice(M.accounts, Min(pos))
           act == IF M.activeIndex >= Len(rest)
                  THEN Max2(0, Len(rest) - 1) ELSE M.activeIndex
           M2 == [M EXCEPT !.accounts = rest, !.activeIndex = act,
                           !.roundRobinCursor = act, !.strategyInitialized = FALSE]
       IN [m |-> M2, d |-> saveToDisk(M2)]

\* Variant: activeIndex is left where it was
removeAccount_NoClamp(M, d, obj) ==
  LET pos == {k \in 1..Count(M) : M.heap[M.accounts[k]].index = M.heap[obj].index}
  IN IF pos = {} THEN [m |-> M, d |-> d]
     ELSE
       LET rest == Splice(M.accounts, Min(pos))
           heap2 == [o \in DOMAIN M.heap |->
                       IF \E i \in 1..Len(rest) : rest[i] = o
                       THEN [M.heap[o] EXCEPT
                               !.index = (CHOOSE i \in 1..Len(rest) : rest[i] = o) - 1]
                       ELSE M.heap[o]]
           M2 == [M EXCEPT !.heap = heap2, !.accounts = rest,
                           !.roundRobinCursor = M.activeIndex,
                           !.strategyInitialized = FALSE]
       IN [m |-> M2, d |-> saveToDisk(M2)]

\* removeAccount finds the pooled entry by the value of the index field
removeAccount(M, d, obj) ==
  LET pos == {k \in 1..Count(M) : M.heap[M.accounts[k]].index = M.heap[obj].index}
  IN IF pos = {} THEN [m |-> M, d |-> d]
     ELSE
       LET rest == Splice(M.accounts, Min(pos))
           heap2 == [o \in DOMAIN M.heap |->
                       IF \E i \in 1..Len(rest) : rest[i] = o
                       THEN [M.heap[o] EXCEPT
                               !.index = (CHOOSE i \in 1..Len(rest) : rest[i] = o) - 1]
                       ELSE M.heap[o]]
           act == IF M.activeIndex >= Len(rest)
                  THEN Max2(0, Len(rest) - 1) ELSE M.activeIndex
           M2 == [M EXCEPT !.heap = heap2, !.accounts = rest, !.activeIndex = act,
                           !.roundRobinCursor = act, !.strategyInitialized = FALSE]
       IN [m |-> M2, d |-> saveToDisk(M2)]

markRefreshFailed_IgnorePolicy(c, M, d, obj, error) ==
  LET M1 == [M EXCEPT !.heap[obj].consecutiveFailures = @ + 1,
                      !.heap[obj].lastRefreshError = error,
                      !.heap[obj].isRefreshing = FALSE]
  IN IF error = InvalidGrantError
     THEN removeAccount(M1, d, obj)
     ELSE [m |-> M1, d |-> d]

markRefreshFailed(c, M, d, obj, error) ==
  LET M1 == [M EXCEPT !.heap[obj].consecutiveFailures = @ + 1,
                      !.heap[obj].lastRefreshError = error,
                      !.heap[obj].isRefreshing = FALSE]
  IN IF c.removeOnInvalidGrant /\ error = InvalidGrantError
     THEN removeAccount(M1, d, obj)
     ELSE [m |-> M1, d |-> d]

addAccount_ByRefreshTokenOnly(M, d, refreshToken, accessToken, expires) ==
  LET match == {k \in 1..Count(M) : M.heap[M.accounts[k]].refreshToken = refreshToken}
  IN IF match # {} THEN
       LET o == M.accounts[Min(match)]
           M1 == [M EXCEPT
                    !.heap[o].access = IF accessToken.kind # "none" THEN accessToken ELSE @,
                    !.heap[o].expires = IF expires # 0 THEN expires ELSE @,
                    !.heap[o].consecutiveFailures = 0]
       IN [m |-> [M1 EXCEPT !.strategyInitialized = FALSE],
           d |-> saveToDisk(M1), res |-> o]
     ELSE
       LET o == Len(M.heap) + 1
           M1 == [M EXCEPT
                    !.heap = Append(@, NewAccount(Count(M), refreshToken, accessToken, expires)),
                    !.accounts = Append(@, o),
                    !.strategyInitialized = FALSE]
       IN [m |-> M1, d |-> saveToDisk(M1), res |-> o]

addAccount(M, d, refreshToken, accessToken, expires) ==
  LET decoded == accessToken.kind = "jwt"
      accountId == IF decoded THEN accessToken.accountId ELSE 0
      userId == IF decoded THEN accessToken.userId ELSE 0
      match == {k \in 1..Count(M) :
                  LET a == M.heap[M.accounts[k]]
                  IN IF userId # 0 /\ a.userId # 0
                     THEN a.userId = userId /\ a.accountId = accountId
                     ELSE a.refreshToken = refreshToken}
  IN IF match # {} THEN
       LET o == M.accounts[Min(match)]
           M1 == [M EXCEPT
                    !.heap[o].access = IF accessToken.kind # "none" THEN accessToken ELSE @,
                    !.heap[o].refreshToken = IF refreshToken # 0 THEN refreshToken ELSE @,
                    !.heap[o].expires = IF expires # 0 THEN expires ELSE @,
                    !.heap[o].userId = IF userId # 0 THEN userId ELSE @,
                    !.heap[o].accountId = IF accountId # 0 THEN accountId ELSE @,
                    !.heap[o].consecutiveFailures = 0]
       IN [m |-> [M1 EXCEPT !.strategyInitialized = FALSE],
           d |-> saveToDisk(M1), res |-> o]
     ELSE
       LET o == Len(M.heap) + 1
           M1 == [M EXCEPT
                    !.heap = Append(@, NewAccount(Count(M), refreshToken, accessToken, expires)),
                    !.accounts = Append(@, o),
                    !.strategyInitialized = FALSE]
       IN [m |-> M1, d |-> saveToDisk(M1), res |-> o]

(**************************** configuration ********************************)
DEFAULT_MULTI_ACCOUNT_CONFIG ==
  [accountSelectionStrategy |-> "sticky", pidOffsetEnabled |-> FALSE,
   perModelRateLimits |-> TRUE, removeOnInvalidGrant |-> TRUE, pid |-> 1]

\* The optional settings a caller may pass to the constructor; the PID only
\* matters when the PID offset is enabled.
Configs ==
  {c \in [accountSelectionStrategy : Strategies, pidOffsetEnabled : BOOLEAN,
          perModelRateLimits : BOOLEAN, removeOnInvalidGrant : {TRUE}, pid : Pids] :
     ~c.pidOffsetEnabled => c.pid = 1}

(**************************** usage snapshots *******************************)
\* The CodexStatusManager of every process and the snapshots file they share
\* are the variable usage; NoUsage stands for it in the specifications of the
\* account pool, which never touch it.
NoUsage == [file |-> "none"]

(************************* history of selections ***************************)
\* An account that is below the failure ceiling and whose rate-limit windows
\* (the global one, and the model's when per-model tracking applies) are over
Usable(c, a, model, t) ==
  /\ a.consecutiveFailures < FailureCeiling
  /\ a.globalRateLimitReset <= t
  /\ (model # NoModel /\ c.perModelRateLimits) => a.rateLimitResets[model] <= t

Available(c, M, model, t) ==
  {i \in 0..Count(M) - 1 : Usable(c, At(M, i), model, t)}

\* One entry per completed getNextAvailableAccount call since the pool last
\* changed shape: the index returned (-1 for null), the model asked for, the
\* indices that were available, the pool size and the activeIndex the call
\* started from.
Pick(c, M0, r, model, t) ==
  [idx |-> IF r.res = Null THEN -1 ELSE r.m.heap[r.res].index,
   model |-> model,
   avail |-> Available(c, r.m, model, t),
   from |-> M0.activeIndex]

\* What is remembered about a process: whether it has loaded the snapshot,
\* how many mark operations its driver has issued, whether its strategy
\* initialization has run, and which other processes had initialized their
\* strategy (sawInit) or completed a selection (sawPick) when it loaded, and
\* the account objects that have been passed to removeAccount (askedRemove),
\* and the last operation its owner called directly, with its arguments and
\* the manager and clock it was called on (last), and how many there were.
NoOperation == [op |-> "none"]
NewLife == [booted |-> FALSE, marks |-> 0, inited |-> FALSE,
            sawInit |-> {}, sawPick |-> {}, askedRemove |-> {},
            last |-> NoOperation, ops |-> 0]

Threads == {"t1", "t2", "t3"}
ProcOf(t) == IF t = "t2" THEN "p2" ELSE "p1"

\* A thread of control: where it stands, the model of its request, the model
\* passed to the selection in progress, the account it holds, its retryCount,
\* the result of its last selection, where to continue after a selection,
\* and the status of the response it holds.
NewThread(pc) ==
  [pc |-> pc, model |-> NoModel, arg |-> NoModel, account |-> Null,
   retryCount |-> 0, next |-> Null, ret |-> "", status |-> ""]

EmptyThreads == [t \in Threads |-> NewThread("idle")]
\* What is remembered about the logical request of a thread: how many
\* requests it has started, the pool size when this one started, the accounts
\* of its transport calls in order, the statuses the upstream answered, how
\* often executeRequest re-entered itself after a 429, after a 401 and after
\* a failed token validation, the response returned to the caller, and
\* whether another account was on offer when a 401 at retryCount 0 was
\* handled (other401) or when a token validation failed (otherTok); the
\* accounts as they were when the request started, kept while its first
\* selection is under way and when that selection returned null (nullAtStart).
NewGhost ==
  [reqs |-> 0, pool0 |-> 0, called |-> <<>>, seen |-> {}, rec429 |-> 0,
   rec401 |-> 0, recTok |-> 0, result |-> "", other401 |-> FALSE,
   otherTok |-> FALSE, start |-> <<>>, nullAtStart |-> FALSE]
EmptyGhost == [t \in Threads |-> NewGhost]

InitSel ==
  /\ now = 1
  /\ disk = MissingFile
  /\ \E c \in Configs : cfg = [p \in Procs |-> IF p = "p1" THEN c ELSE DEFAULT_MULTI_ACCOUNT_CONFIG]
  /\ mgr = [p \in Procs |-> NewManager]
  /\ life = [p \in Procs |-> NewLife]
  /\ picks = [p \in Procs |-> <<>>]
  /\ th = EmptyThreads
  /\ gh = EmptyGhost
  /\ usage = NoUsage

SelLoad ==
  /\ mgr' = [mgr EXCEPT !["p1"] = loadFromDisk(@, disk)]
  /\ life' = [life EXCEPT !["p1"].booted = TRUE]
  /\ picks' = [picks EXCEPT !["p1"] = <<>>]
  /\ UNCHANGED <<now, disk, cfg, th, gh, usage>>

SelAdd ==
  /\ life["p1"].booted
  /\ Count(mgr["p1"]) < MaxAccounts
  /\ \E rt \in 1..Count(mgr["p1"]) + 1 :
       LET r == addAccount(mgr["p1"], disk, rt, NoAccess, 0)
       IN /\ mgr' = [mgr EXCEPT !["p1"] = r.m]
          /\ disk' = r.d
  /\ picks' = [picks EXCEPT !["p1"] = <<>>]
  /\ UNCHANGED <<now, cfg, life, th, gh, usage>>

SelGetNext ==
  /\ life["p1"].booted
  /\ Len(picks["p1"]) < MaxPicks
  /\ \E model \in Models \cup {NoModel} :
       LET r == getNextAvailableAccount(cfg["p1"], mgr["p1"], disk, model, now)
       IN /\ mgr' = [mgr EXCEPT !["p1"] = r.m]
          /\ disk' = r.d
          /\ picks' = [picks EXCEPT !["p1"] =
                         Append(@, Pick(cfg["p1"], mgr["p1"], r, model, now))]
  /\ UNCHANGED <<now, cfg, life, th, gh, usage>>

SelMarkRateLimited ==
  /\ life["p1"].booted
  /\ life["p1"].marks < MaxMarks
  /\ \E i \in 0..Count(mgr["p1"]) - 1, ra \in RetryAfters, model \in Models \cup {NoModel} :
       mgr' = [mgr EXCEPT !["p1"] =
                 markRateLimited(cfg["p1"], @, mgr["p1"].accounts[i + 1], ra, model, now)]
  /\ life' = [life EXCEPT !["p1"].marks = @ + 1]
  /\ UNCHANGED <<now, disk, cfg, picks, th, gh, usage>>

SelMarkRefreshFailed ==
  /\ life["p1"].booted
  /\ life["p1"].marks < MaxMarks
  /\ \E i \in 0..Count(mgr["p1"]) - 1, e \in ErrorTexts :
       LET r == markRefreshFailed(cfg["p1"], mgr["p1"], disk, mgr["p1"].accounts[i + 1], e)
       IN /\ mgr' = [mgr EXCEPT !["p1"] = r.m]
          /\ disk' = r.d
          /\ picks' = [picks EXCEPT !["p1"] =
                         IF Count(r.m) # Count(mgr["p1"]) THEN <<>> ELSE @]
  /\ life' = [life EXCEPT !["p1"].marks = @ + 1]
  /\ UNCHANGED <<now, cfg, th, gh, usage>>

Tick ==
  /\ now < MaxTime
  /\ now' = now + 1
  /\ UNCHANGED <<disk, cfg, mgr, life, picks, th, gh, usage>>

NextSel ==
  \/ SelLoad
  \/ SelAdd
  \/ SelGetNext
  \/ SelMarkRateLimited
  \/ SelMarkRefreshFailed
  \/ Tick

SpecSel == InitSel /\ [][NextSel]_vars

(************************ claims on the selector ***************************)
Strategy(p) == cfg[p].accountSelectionStrategy
Indices(p) == 0..Count(mgr[p]) - 1

\* C5: under sticky and under hybrid, as long as every account is available
\* and the pool is neither added to, removed from nor reloaded, consecutive
\* getNextAvailableAccount calls of a process return the same index.
C5_StickySameIndex ==
  \A p \in Procs :
    Strategy(p) \in {"sticky", "hybrid"} =>
      \A j \in 1..Len(picks[p]) - 1 :
        (picks[p][j].avail = Indices(p) /\ picks[p][j + 1].avail = Indices(p))
          => picks[p][j + 1].idx = picks[p][j].idx

C5_Witness ==
  /\ Strategy("p1") = "hybrid"
  /\ Count(mgr["p1"]) >= 2
  /\ Len(picks["p1"]) >= 3
  /\ \A j \in 1..3 : picks["p1"][j].avail = Indices("p1") /\ picks["p1"][j].idx = picks["p1"][1].idx

C9_FailoverThenSticky ==
  \A p \in Procs :
    (Strategy(p) = "sticky" /\ Count(mgr[p]) = 2) =>
      \A j \in 1..Len(picks[p]) : \A b \in {0, 1} :
        /\ picks[p][j].avail = {b} => picks[p][j].idx = b
        /\ (j > 1 /\ picks[p][j - 1].idx = b /\ b \in picks[p][j].avail)
             => picks[p][j].idx = b

C9_Witness ==
  /\ Strategy("p1") = "sticky"
  /\ Count(mgr["p1"]) = 2
  /\ At(mgr["p1"], 0).rateLimitResets["m"] > 0
  /\ Len(picks["p1"]) >= 3
  /\ picks["p1"][1].idx = 0
  /\ picks["p1"][2].avail = {1} /\ picks["p1"][2].idx = 1 /\ picks["p1"][2].model = "m"
  /\ picks["p1"][3].avail = {0, 1} /\ picks["p1"][3].idx = 1 /\ picks["p1"][3].model = "m"

\* C10: under round-robin with accounts [A,B,C], while B is rate-limited for
\* model m and A and C are available, every selection for m returns A or C,
\* and two selections for m in a row return different ones (A, C, A, ...).
C10_RoundRobinSkipsLimited ==
  \A p \in Procs :
    (Strategy(p) = "round-robin" /\ Count(mgr[p]) = 3) =>
      \A j \in 1..Len(picks[p]) :
        (picks[p][j].model = "m" /\ picks[p][j].avail = {0, 2}) =>
          /\ picks[p][j].idx \in {0, 2}
          /\ (j > 1 /\ picks[p][j - 1].model = "m" /\ picks[p][j - 1].avail = {0, 2})
               => picks[p][j].idx = 2 - picks[p][j - 1].idx

C10_Witness ==
  /\ Strategy("p1") = "round-robin"
  /\ Count(mgr["p1"]) = 3
  /\ At(mgr["p1"], 1).rateLimitResets["m"] > now
  /\ Len(picks["p1"]) = 4
  /\ \A j \in 2..4 : picks["p1"][j].model = "m" /\ picks["p1"][j].avail = {0, 2}
  /\ <<picks["p1"][1].idx, picks["p1"][2].idx, picks["p1"][3].idx, picks["p1"][4].idx>>
       = <<0, 2, 0, 2>>

(************** getNextAvailableAccount as a suspendable call **************)
\* The call up to its first suspension: the empty-pool return, then
\* initializeStrategyState up to `await this.saveToDisk()` or, when it does
\* not save, to its end.
GnBegin(c, M, d) ==
  IF Count(M) = 0 THEN [m |-> M, d |-> d, pc |-> "gn_null"]
  ELSE LET b == InitStrategyBegin(c, M, d)
       IN IF b.pending THEN [m |-> b.m, d |-> b.d, pc |-> "gn_init"]
          ELSE IF b.done THEN [m |-> b.m, d |-> b.d, pc |-> "gn_scan"]
          ELSE [m |-> InitStrategyEnd(c, b.m), d |-> b.d, pc |-> "gn_scan"]

\* initializeStrategyState resumes after its save
GnInit(t) ==
  /\ th[t].pc = "gn_init"
  /\ mgr' = [mgr EXCEPT ![ProcOf(t)] = InitStrategyEnd(cfg[ProcOf(t)], @)]
  /\ th' = [th EXCEPT ![t].pc = "gn_scan"]
  /\ UNCHANGED <<now, disk, cfg, life, picks, gh, usage>>

\* getNextAvailableAccount resumes after initializeStrategyState and returns
GnScan(t) ==
  /\ th[t].pc \in {"gn_scan", "gn_null"}
  /\ LET p == ProcOf(t)
         r == IF th[t].pc = "gn_null" THEN [m |-> mgr[p], res |-> Null]
              ELSE SelectAccount(cfg[p], mgr[p], th[t].arg, now)
     IN /\ mgr' = [mgr EXCEPT ![p] = r.m]
        /\ th' = [th EXCEPT ![t].pc = th[t].ret, ![t].next = r.res]
        /\ picks' = [picks EXCEPT ![p] =
                       IF Len(@) < MaxPicks
                       THEN Append(@, Pick(cfg[p], mgr[p], r, th[t].arg, now))
                       ELSE @]
  /\ UNCHANGED <<now, disk, cfg, life, gh, usage>>

(******************* two processes sharing the pool file *******************)
\* Pools a snapshot file may hold: accounts that never failed or that have
\* reached the failure ceiling, and any activeAccountIndex inside the list.
SnapshotAccount(i, failures) ==
  [NewAccount(i, i + 1, NoAccess, 0) EXCEPT !.consecutiveFailures = failures]

SnapshotFiles ==
  {[kind |-> "json", version |-> 1, accounts |-> [i \in 1..n |-> SnapshotAccount(i - 1, f[i])],
    activeAccountIndex |-> a] :
     <<n, f, a>> \in {x \in (2..MaxAccounts) \X [1..MaxAccounts -> {0, FailureCeiling}]
                               \X (0..MaxAccounts - 1) :
                        /\ x[3] < x[1]
                        /\ \A i \in x[1] + 1..MaxAccounts : x[2][i] = 0}}

InitHybrid ==
  /\ now = 1
  /\ disk \in SnapshotFiles
  /\ cfg \in [Procs -> {c \in Configs : c.perModelRateLimits}]
  /\ mgr = [p \in Procs |-> NewManager]
  /\ life = [p \in Procs |-> NewLife]
  /\ picks = [p \in Procs |-> <<>>]
  /\ th = [t \in Threads |-> NewThread(IF t \in {"t1", "t2"} THEN "new" ELSE "off")]
  /\ gh = EmptyGhost
  /\ usage = NoUsage

\* A process starts: accountManager.loadFromDisk()
HybLoad(t) ==
  /\ th[t].pc = "new"
  /\ LET p == ProcOf(t)
     IN /\ mgr' = [mgr EXCEPT ![p] = loadFromDisk(@, disk)]
        /\ life' = [life EXCEPT ![p].booted = TRUE,
                                ![p].sawInit = {q \in Procs : life[q].inited},
                                ![p].sawPick = {q \in Procs : Len(picks[q]) > 0}]
  /\ th' = [th EXCEPT ![t].pc = "idle"]
  /\ UNCHANGED <<now, disk, cfg, picks, gh, usage>>

\* A process asks for an account
HybSelect(t) ==
  /\ th[t].pc = "idle"
  /\ Len(picks[ProcOf(t)]) < MaxPicks - 2
  /\ LET p == ProcOf(t)
         b == GnBegin(cfg[p], mgr[p], disk)
     IN /\ mgr' = [mgr EXCEPT ![p] = b.m]
        /\ disk' = b.d
        /\ th' = [th EXCEPT ![t].pc = b.pc, ![t].ret = "idle"]
        /\ life' = [life EXCEPT ![p].inited = TRUE]
  /\ UNCHANGED <<now, cfg, picks, gh, usage>>

NextHybrid ==
  \/ \E t \in Threads : HybLoad(t)
  \/ \E t \in Threads : HybSelect(t)
  \/ \E t \in Threads : GnInit(t)
  \/ \E t \in Threads : GnScan(t)

SpecHybrid == InitHybrid /\ [][NextHybrid]_vars

(*********************** claims on the hybrid start ************************)
AllUsable(p) == \A j \in 1..Len(picks[p]) : picks[p][j].avail = Indices(p)
PlainHybrid(p) == Strategy(p) = "hybrid" /\ ~cfg[p].pidOffsetEnabled

C8_Original ==
  \A p \in Procs : \A q \in Procs \ {p} :
    (/\ PlainHybrid(p) /\ PlainHybrid(q)
     /\ Len(picks[p]) > 0 /\ Len(picks[q]) > 0
     /\ AllUsable(p) /\ AllUsable(q))
      => picks[p][1].idx # picks[q][1].idx

\* C8 as amended: they differ whenever one of them loaded the file after the
\* other's strategy initialization had saved its advanced activeIndex.
C8_HybridSpreadsWhenSerialized ==
  \A p \in Procs : \A q \in life[p].sawInit :
    (/\ PlainHybrid(p) /\ PlainHybrid(q)
     /\ Len(picks[p]) > 0 /\ Len(picks[q]) > 0
     /\ AllUsable(p) /\ AllUsable(q))
      => /\ picks[p][1].idx # picks[q][1].idx
         /\ mgr[p].activeIndex # mgr[q].activeIndex

C8_Witness ==
  /\ "p2" \in life["p1"].sawInit
  /\ "p2" \notin life["p1"].sawPick
  /\ PlainHybrid("p1") /\ PlainHybrid("p2")
  /\ Len(picks["p1"]) > 0 /\ Len(picks["p2"]) > 0
  /\ AllUsable("p1") /\ AllUsable("p2")
  /\ Count(mgr["p1"]) = 3

(************************* the request orchestrator ************************)
MaxRequests == 1
TokenLifetime == 60

\* What the upstream may answer; "404u" is a 404 whose body names a usage limit
Statuses == {"200", "401", "404u", "429", "500"}

\* What the refresh collaborator may do for an account at time t: return a
\* new triple, return a failure, or throw
RefreshResults(a, t) ==
  {[type |-> "success", access |-> Jwt(a.refreshToken, a.refreshToken),
    refresh |-> a.refreshToken, expires |-> t + proactiveRefreshThresholdMs + TokenLifetime,
    error |-> ""],
   [type |-> "failed", access |-> NoAccess, refresh |-> 0, expires |-> 0, error |-> ""],
   [type |-> "throw", access |-> NoAccess, refresh |-> 0, expires |-> 0,
    error |-> InvalidGrantError]}

updateAccountTokens(M, obj, accessToken, refreshToken, expires) ==
  LET decoded == accessToken.kind = "jwt"
      M1 == [M EXCEPT
               !.heap[obj].access = accessToken,
               !.heap[obj].refreshToken = refreshToken,
               !.heap[obj].expires = expires,
               !.heap[obj].consecutiveFailures = 0,
               !.heap[obj].isRefreshing = FALSE,
               !.heap[obj].lastRefreshError = "",
               !.heap[obj].accountId =
                  IF decoded /\ accessToken.accountId # 0 THEN accessToken.accountId ELSE @,
               !.heap[obj].userId =
                  IF decoded /\ accessToken.userId # 0 THEN accessToken.userId ELSE @]
  IN [m |-> M1, d |-> saveToDisk(M1)]

\* ensureValidToken up to its first suspension.  out: "valid" or "invalid"
\* when it returns without a refresh, "refresh" when it has set isRefreshing
\* and awaits the collaborator.
EnsureBegin(M, obj, t) ==
  LET a == M.heap[obj]
  IN IF a.expires = 0 \/ a.expires > t + proactiveRefreshThresholdMs
     THEN [m |-> M, out |-> "valid"]
     ELSE IF a.isRefreshing
     THEN [m |-> M, out |-> IF a.access.kind # "none" THEN "valid" ELSE "invalid"]
     ELSE [m |-> [M EXCEPT !.heap[obj].isRefreshing = TRUE], out |-> "refresh"]

\* ensureValidToken after the collaborator has answered
EnsureEnd(c, M, d, obj, result) ==
  IF result.type = "success"
  THEN LET u == updateAccountTokens(M, obj, result.access, result.refresh, result.expires)
       IN [m |-> u.m, d |-> u.d, out |-> "valid"]
  ELSE LET f == markRefreshFailed(c, M, d, obj,
                  IF result.type = "failed" THEN "Token refresh failed" ELSE result.error)
       IN [m |-> f.m, d |-> f.d, out |-> "invalid"]

\* handleErrorResponse: a usage-limit 404 is returned as a 429
handleErrorResponse_Raw(status) == status

handleErrorResponse(status) == IF status = "404u" THEN "429" ELSE status

\* The account id executeRequest sends: the cached one, else the token's claim
ResolvedAccountId(a) ==
  IF a.accountId # 0 THEN a.accountId
  ELSE IF a.access.kind = "jwt" THEN a.access.accountId ELSE 0

\* The retry guards of executeRequest
MayRetryAfter429_OneMore(retryCount, count) == retryCount < count

MayRetryAfter429(retryCount, count) == retryCount < count - 1

MayRetryAfter401_Twice(retryCount) == retryCount < 2

MayRetryAfter401(retryCount) == retryCount < 1

\* `nextAccount && nextAccount.index !== account.index`
IsOtherAccount(M, next, account) ==
  next # Null /\ M.heap[next].index # M.heap[account].index

\* Another pooled account than the one held that the selector would accept
OtherOnOffer(c, M, account, model, t) ==
  \E i \in 0..Count(M) - 1 :
    M.accounts[i + 1] # account /\ Usable(c, At(M, i), model, t)

\* Pools the plugin may find in the snapshot file at start-up: each account
\* fresh or one failure short of the ceiling, its token without expiry or due
\* for refresh, with an account id, or fresh with no account id at all.
Profiles ==
  {[failures |-> f, expires |-> e, id |-> TRUE] : f \in {0, FailureCeiling - 1}, e \in {0, 2}}
    \cup {[failures |-> 0, expires |-> 0, id |-> FALSE]}

ProfiledAccount(i, pr) ==
  [NewAccount(i, i + 1, IF pr.id THEN Jwt(i + 1, i + 1) ELSE OpaqueAccess, pr.expires)
     EXCEPT !.consecutiveFailures = pr.failures]

RequestFiles ==
  {[kind |-> "json", version |-> 1,
    accounts |-> [i \in 1..n |-> ProfiledAccount(i - 1, f[i])],
    activeAccountIndex |-> a] :
     <<n, f, a>> \in {x \in (1..MaxAccounts) \X [1..MaxAccounts -> Profiles]
                               \X (0..MaxAccounts - 1) :
                        /\ x[3] < x[1]
                        /\ \A i \in x[1] + 1..MaxAccounts :
                             x[2][i] = [failures |-> 0, expires |-> 0, id |-> TRUE]}}

\* Pools in which no account can be selected: no file, an empty list, or
\* every account at the failure ceiling
ExhaustedFiles ==
  {MissingFile} \cup
  {[kind |-> "json", version |-> 1,
    accounts |-> [i \in 1..n |->
                    ProfiledAccount(i - 1, [failures |-> FailureCeiling, expires |-> 0,
                                            id |-> TRUE])],
    activeAccountIndex |-> a] :
     <<n, a>> \in {x \in (0..MaxAccounts) \X (0..MaxAccounts - 1) :
                    x[2] < x[1] \/ x = <<0, 0>>}}

\* The manager as the plugin constructs it: only the strategy and the PID
\* offset are configurable.  The PID offset only shifts the index a process
\* starts from, which the snapshot's activeAccountIndex already ranges over,
\* so it is left off here.
PluginConfigs ==
  {c \in Configs : c.perModelRateLimits /\ c.removeOnInvalidGrant /\ ~c.pidOffsetEnabled}

Init ==
  /\ now = 1
  /\ disk \in RequestFiles \cup ExhaustedFiles
  /\ \E c \in PluginConfigs :
       cfg = [p \in Procs |-> IF p = "p1" THEN c ELSE DEFAULT_MULTI_ACCOUNT_CONFIG]
  /\ mgr = [p \in Procs |-> IF p = "p1" THEN loadFromDisk(NewManager, disk) ELSE NewManager]
  /\ life = [p \in Procs |-> IF p = "p1" THEN [NewLife EXCEPT !.booted = TRUE] ELSE NewLife]
  /\ picks = [p \in Procs |-> <<>>]
  /\ th = [t \in Threads |-> NewThread(IF t = "t1" THEN "idle" ELSE "off")]
  /\ gh = EmptyGhost
  /\ usage = NoUsage

\* The synthetic response of loader.fetch when no account is selected
NoAvailableAccounts_Unauthorized == "401 All accounts failed token refresh"

NoAvailableAccounts == "503"

\* loader.fetch: extract the model and ask the selector for an account
Fetch(t) ==
  /\ th[t].pc \in {"idle", "done"}
  /\ gh[t].reqs < MaxRequests
  /\ \E model \in Models \cup {NoModel} :
       LET p == ProcOf(t)
           b == GnBegin(cfg[p], mgr[p], disk)
       IN /\ mgr' = [mgr EXCEPT ![p] = b.m]
          /\ disk' = b.d
          /\ th' = [th EXCEPT ![t] = [NewThread(b.pc) EXCEPT
                                        !.model = model, !.arg = model, !.ret = "f_got"]]
          /\ gh' = [gh EXCEPT ![t] = [NewGhost EXCEPT !.reqs = gh[t].reqs + 1,
                                                      !.pool0 = Count(mgr[p]),
                                                      !.start = Serialized(mgr[p])]]
          /\ picks' = [picks EXCEPT ![p] = <<>>]
  /\ UNCHANGED <<now, cfg, life, usage>>

\* loader.fetch after the selection: the synthetic 503, or executeRequest
FetchGot(t) ==
  /\ th[t].pc = "f_got"
  /\ IF th[t].next = Null
     THEN /\ th' = [th EXCEPT ![t].pc = "done"]
          /\ gh' = [gh EXCEPT ![t].result = NoAvailableAccounts, ![t].nullAtStart = TRUE]
     ELSE /\ th' = [th EXCEPT ![t].pc = "er_start", ![t].account = th[t].next,
                              ![t].retryCount = 0]
          /\ gh' = [gh EXCEPT ![t].start = <<>>]
  /\ UNCHANGED <<now, disk, cfg, mgr, life, picks, usage>>

\* executeRequest is entered: ensureValidToken up to its first suspension
ExecStart(t) ==
  /\ th[t].pc = "er_start"
  /\ LET p == ProcOf(t)
         e == EnsureBegin(mgr[p], th[t].account, now)
     IN /\ mgr' = [mgr EXCEPT ![p] = e.m]
        /\ th' = [th EXCEPT ![t].pc = CASE e.out = "valid" -> "er_valid"
                                        [] e.out = "invalid" -> "er_invalid"
                                        [] OTHER -> "er_refreshing"]
  /\ UNCHANGED <<now, disk, cfg, life, picks, gh, usage>>

\* The refresh collaborator answers
RefreshDone(t) ==
  /\ th[t].pc = "er_refreshing"
  /\ LET p == ProcOf(t)
     IN \E result \in RefreshResults(mgr[p].heap[th[t].account], now) :
          LET e == EnsureEnd(cfg[p], mgr[p], disk, th[t].account, result)
          IN /\ mgr' = [mgr EXCEPT ![p] = e.m]
             /\ disk' = e.d
             /\ th' = [th EXCEPT ![t].pc = IF e.out = "valid" THEN "er_valid" ELSE "er_invalid"]
             /\ life' = [life EXCEPT ![p].askedRemove =
                           IF /\ result.type = "throw"
                              /\ result.error = InvalidGrantError
                              /\ cfg[p].removeOnInvalidGrant
                           THEN @ \cup {th[t].account} ELSE @]
  /\ UNCHANGED <<now, cfg, picks, gh, usage>>

\* Token validation failed: reselect, without a model
TokenInvalid(t) ==
  /\ th[t].pc = "er_invalid"
  /\ LET p == ProcOf(t)
         b == GnBegin(cfg[p], mgr[p], disk)
     IN /\ mgr' = [mgr EXCEPT ![p] = b.m]
        /\ disk' = b.d
        /\ th' = [th EXCEPT ![t].pc = b.pc, ![t].arg = NoModel, ![t].ret = "er_tok_got"]
  /\ UNCHANGED <<now, cfg, life, picks, gh, usage>>

\* ... and continue on the other account with the same retryCount, or give up
TokenInvalidGot(t) ==
  /\ th[t].pc = "er_tok_got"
  /\ LET p == ProcOf(t)
         other == OtherOnOffer(cfg[p], mgr[p], th[t].account, th[t].model, now)
     IN IF IsOtherAccount(mgr[p], th[t].next, th[t].account)
        THEN /\ th' = [th EXCEPT ![t].pc = "er_start", ![t].account = th[t].next]
             /\ gh' = [gh EXCEPT ![t].recTok = @ + 1]
        ELSE /\ th' = [th EXCEPT ![t].pc = "done"]
             /\ gh' = [gh EXCEPT ![t].result = "401 All accounts failed token refresh",
                                 ![t].otherTok = other]
  /\ UNCHANGED <<now, disk, cfg, mgr, life, picks, usage>>

\* The token is valid: resolve the account id and issue the transport call
ExecValid(t) ==
  /\ th[t].pc = "er_valid"
  /\ IF ResolvedAccountId(mgr[ProcOf(t)].heap[th[t].account]) = 0
     THEN /\ th' = [th EXCEPT ![t].pc = "done"]
          /\ gh' = [gh EXCEPT ![t].result = "401 no account id"]
     ELSE /\ th' = [th EXCEPT ![t].pc = "er_fetching"]
          /\ gh' = [gh EXCEPT ![t].called = Append(@, th[t].account)]
  /\ UNCHANGED <<now, disk, cfg, mgr, life, picks, usage>>

\* The upstream answers.  429: mark the account and go on to the retry
\* decision.  401 at retryCount 0: mark the refresh failed and reselect.
\* Anything else is post-processed and returned.
Respond(t, statuses) ==
  /\ th[t].pc = "er_fetching"
  /\ \E status \in statuses, retryAfterMs \in RetryAfters :
       LET p == ProcOf(t)
           f == markRefreshFailed(cfg[p], mgr[p], disk, th[t].account, "401 Unauthorized")
           b == GnBegin(cfg[p], f.m, f.d)
       IN /\ status # "429" => retryAfterMs = DefaultRetryAfter
          /\ CASE status = "429" ->
                    /\ mgr' = [mgr EXCEPT ![p] =
                                 markRateLimited(cfg[p], @, th[t].account, retryAfterMs,
                                                 th[t].model, now)]
                    /\ disk' = disk
                    /\ th' = [th EXCEPT ![t].pc = "er_429", ![t].status = status]
                    /\ gh' = [gh EXCEPT ![t].seen = @ \cup {status}]
               [] status = "401" /\ MayRetryAfter401(th[t].retryCount) ->
                    /\ mgr' = [mgr EXCEPT ![p] = b.m]
                    /\ disk' = b.d
                    /\ th' = [th EXCEPT ![t].pc = b.pc, ![t].status = status,
                                        ![t].arg = th[t].model, ![t].ret = "er_401_got"]
                    /\ gh' = [gh EXCEPT ![t].seen = @ \cup {status},
                                        ![t].other401 =
                                           \E i \in 0..Count(mgr[p]) - 1 :
                                             /\ mgr[p].accounts[i + 1] # th[t].account
                                             /\ At(mgr[p], i).consecutiveFailures < FailureCeiling]
               [] OTHER ->
                    /\ mgr' = mgr
                    /\ disk' = disk
                    /\ th' = [th EXCEPT ![t].pc = "done", ![t].status = status]
                    /\ gh' = [gh EXCEPT ![t].seen = @ \cup {status},
                                        ![t].result = IF status = "200" THEN status
                                                      ELSE handleErrorResponse(status)]
  /\ UNCHANGED <<now, cfg, life, picks, usage>>

Response(t) == Respond(t, Statuses)

\* After a 429: reselect while retryCount < getAccountCount() - 1
RateLimited(t) ==
  /\ th[t].pc = "er_429"
  /\ LET p == ProcOf(t)
         b == GnBegin(cfg[p], mgr[p], disk)
     IN IF MayRetryAfter429(th[t].retryCount, Count(mgr[p]))
        THEN /\ mgr' = [mgr EXCEPT ![p] = b.m]
             /\ disk' = b.d
             /\ th' = [th EXCEPT ![t].pc = b.pc, ![t].arg = th[t].model,
                                 ![t].ret = "er_429_got"]
             /\ gh' = gh
        ELSE /\ mgr' = mgr
             /\ disk' = disk
             /\ th' = [th EXCEPT ![t].pc = "done"]
             /\ gh' = [gh EXCEPT ![t].result = handleErrorResponse(th[t].status)]
  /\ UNCHANGED <<now, cfg, life, picks, usage>>

\* After the reselection that follows a 429 or a first 401: re-enter
\* executeRequest with retryCount + 1 on a different account, or return the
\* response
RetryGot(t) ==
  /\ th[t].pc \in {"er_429_got", "er_401_got"}
  /\ IF IsOtherAccount(mgr[ProcOf(t)], th[t].next, th[t].account)
     THEN /\ th' = [th EXCEPT ![t].pc = "er_start", ![t].account = th[t].next,
                              ![t].retryCount = @ + 1]
          /\ gh' = [gh EXCEPT ![t].rec429 = IF th[t].pc = "er_429_got" THEN @ + 1 ELSE @,
                              ![t].rec401 = IF th[t].pc = "er_401_got" THEN @ + 1 ELSE @]
     ELSE /\ th' = [th EXCEPT ![t].pc = "done"]
          /\ gh' = [gh EXCEPT ![t].result = handleErrorResponse(th[t].status)]
  /\ UNCHANGED <<now, disk, cfg, mgr, life, picks, usage>>

Next ==
  \/ \E t \in Threads : Fetch(t)
  \/ \E t \in Threads : FetchGot(t)
  \/ \E t \in Threads : GnInit(t)
  \/ \E t \in Threads : GnScan(t)
  \/ \E t \in Threads : ExecStart(t)
  \/ \E t \in Threads : RefreshDone(t)
  \/ \E t \in Threads : TokenInvalid(t)
  \/ \E t \in Threads : TokenInvalidGot(t)
  \/ \E t \in Threads : ExecValid(t)
  \/ \E t \in Threads : Response(t)
  \/ \E t \in Threads : RateLimited(t)
  \/ \E t \in Threads : RetryGot(t)
  \/ Tick

Spec == Init /\ [][Next]_vars

(********************* claims about the orchestrator ***********************)
Done(t) == th[t].pc = "done"

\* Results the orchestrator builds itself before any transport call is issued
\* for the account at hand
SyntheticResults == {"401 All accounts failed token refresh", "401 no account id"}

C3_RetryOnceOnOtherAccount ==
  \A t \in Threads :
    (Done(t) /\ gh[t].other401) => gh[t].rec401 = 1

\* C4 as stated: the synthetic 401 for a failed token validation is returned
\* only when no other account of the pool passes availability.
C4_SyntheticOnlyWhenNoOther ==
  \A t \in Threads :
    (Done(t) /\ gh[t].result = "401 All accounts failed token refresh") => ~gh[t].otherTok

\* The sticky two-account case: both accounts fresh with valid tokens, the
\* first answers 401, and the request ends with that 401 after a single
\* transport call although the second account was never tried.
C3_Witness ==
  \E t \in Threads :
    /\ Done(t)
    /\ Strategy(ProcOf(t)) = "sticky"
    /\ gh[t].pool0 = 2
    /\ gh[t].other401
    /\ gh[t].rec401 = 0
    /\ Len(gh[t].called) = 1
    /\ gh[t].result = "401"
    /\ \A i \in Indices(ProcOf(t)) : At(mgr[ProcOf(t)], i).consecutiveFailures <= 1

\* The sticky two-account case: the refresh of the first account fails once,
\* the second account is available, and the request ends with the synthetic
\* 401 without a transport call.
C4_Witness ==
  \E t \in Threads :
    /\ Done(t)
    /\ Strategy(ProcOf(t)) = "sticky"
    /\ gh[t].pool0 = 2
    /\ Count(mgr[ProcOf(t)]) = 2
    /\ gh[t].result = "401 All accounts failed token refresh"
    /\ gh[t].otherTok
    /\ gh[t].recTok = 0
    /\ gh[t].called = <<>>

(*********************** claims on the failure ceiling *********************)
\* Every pooled account of M has reached the failure ceiling (or M is empty)
AllAtCeiling(M) ==
  \A i \in 0..Count(M) - 1 : At(M, i).consecutiveFailures >= FailureCeiling

\* C11: a getNextAvailableAccount call never returns an account with three
\* or more consecutive failures, and it returns null exactly when the pool is
\* empty or every pooled account has three or more consecutive failures.
C11_CeilingExcluded ==
  [][\A t \in Threads :
       (th[t].pc \in {"gn_scan", "gn_null"} /\ th'[t].pc = th[t].ret) =>
         LET M == mgr'[ProcOf(t)]
             r == th'[t].next
         IN /\ r # Null => M.heap[r].consecutiveFailures < FailureCeiling
            /\ r = Null <=> AllAtCeiling(M)]_vars

\* A reselection inside a request comes back with null although two accounts
\* are pooled: both are at the ceiling
C11_Witness ==
  \E t \in Threads :
    /\ th[t].pc = "er_tok_got"
    /\ th[t].next = Null
    /\ Count(mgr[ProcOf(t)]) >= 2
    /\ AllAtCeiling(mgr[ProcOf(t)])

(********************* claims on the empty selection ***********************)
\* C12: a request whose first selection returns null ends at once with the
\* synthetic 503: no transport call, no re-entry of executeRequest, and every
\* account exactly as it was when the request started.
C12_NoAccountMeans503 ==
  \A t \in Threads :
    gh[t].nullAtStart =>
      /\ Done(t)
      /\ gh[t].result = "503"
      /\ gh[t].called = <<>> /\ gh[t].seen = {}
      /\ gh[t].rec429 = 0 /\ gh[t].rec401 = 0 /\ gh[t].recTok = 0
      /\ Serialized(mgr[ProcOf(t)]) = gh[t].start

\* Three accounts, all at the ceiling, under hybrid: the request ended with 503
C12_Witness ==
  \E t \in Threads :
    /\ Done(t)
    /\ gh[t].nullAtStart
    /\ gh[t].result = "503"
    /\ Strategy(ProcOf(t)) = "hybrid"
    /\ Len(gh[t].start) = MaxAccounts
    /\ mgr[ProcOf(t)].strategyInitialized

(**************** concurrent requests inside one process *******************)
\* Pools of two fresh accounts with account ids, each token either without
\* expiry or due for refresh
ConcurrentFiles ==
  {f \in RequestFiles :
     /\ Len(f.accounts) = 2
     /\ \A i \in 1..Len(f.accounts) :
          f.accounts[i].consecutiveFailures = 0 /\ f.accounts[i].accountId # 0}

\* Requests t1 and t3 are made to the same plugin process
InitConcurrent ==
  /\ now = 1
  /\ disk \in ConcurrentFiles
  /\ \E c \in PluginConfigs :
       cfg = [p \in Procs |-> IF p = "p1" THEN c ELSE DEFAULT_MULTI_ACCOUNT_CONFIG]
  /\ mgr = [p \in Procs |-> IF p = "p1" THEN loadFromDisk(NewManager, disk) ELSE NewManager]
  /\ life = [p \in Procs |-> IF p = "p1" THEN [NewLife EXCEPT !.booted = TRUE] ELSE NewLife]
  /\ picks = [p \in Procs |-> <<>>]
  /\ th = [t \in Threads |-> NewThread(IF ProcOf(t) = "p1" THEN "idle" ELSE "off")]
  /\ gh = EmptyGhost
  /\ usage = NoUsage

\* An upstream that accepts or rejects the credentials, and never rate-limits
ResponseAuth(t) == Respond(t, {"200", "401"})

NextConcurrent ==
  \/ \E t \in Threads : Fetch(t)
  \/ \E t \in Threads : FetchGot(t)
  \/ \E t \in Threads : GnInit(t)
  \/ \E t \in Threads : GnScan(t)
  \/ \E t \in Threads : ExecStart(t)
  \/ \E t \in Threads : RefreshDone(t)
  \/ \E t \in Threads : TokenInvalid(t)
  \/ \E t \in Threads : TokenInvalidGot(t)
  \/ \E t \in Threads : ExecValid(t)
  \/ \E t \in Threads : ResponseAuth(t)
  \/ \E t \in Threads : RetryGot(t)

SpecConcurrent == InitConcurrent /\ [][NextConcurrent]_vars

(************************ claims on removeAccount **************************)
Pooled(M) == {M.accounts[k] : k \in 1..Count(M)}

\* C13 as stated: an account leaves the pool only by a removeAccount call for
\* that very account, and the accounts that stay keep their relative order.
C13_RemovesExactlyThatAccount ==
  \A p \in Procs :
    /\ \A obj \in DOMAIN mgr[p].heap :
         obj \notin Pooled(mgr[p]) => obj \in life[p].askedRemove
    /\ \A i, j \in 1..Count(mgr[p]) : i < j => mgr[p].accounts[i] < mgr[p].accounts[j]

\* Two requests held the first account when its refresh was rejected with
\* invalid_grant: the pool is empty although removal was asked for that
\* account only.
C13_Witness ==
  /\ Count(mgr["p1"]) = 0
  /\ life["p1"].askedRemove = {1}
  /\ Len(mgr["p1"].heap) = 2

(*********************** claims on the account list ************************)
\* The positions of a list of n accounts; position 0 alone when n = 0
ValidIndices(n) == IF n = 0 THEN {0} ELSE 0..n - 1

\* C14: whatever accounts were added and removed, the index fields of the
\* pooled accounts are 0..count-1 in list order, and activeIndex and
\* roundRobinCursor are positions of the list (0 when it is empty), in
\* particular after a removal.
C14_DenseIndices ==
  \A p \in Procs :
    /\ \A i \in 0..Count(mgr[p]) - 1 : At(mgr[p], i).index = i
    /\ mgr[p].activeIndex \in ValidIndices(Count(mgr[p]))
    /\ mgr[p].roundRobinCursor \in ValidIndices(Count(mgr[p]))

\* Three accounts were added and the middle one has been removed: the
\* accounts formerly at 0 and 2 are at 0 and 1, and activeIndex and the
\* cursor point at the last of them.
C14_Witness ==
  LET M == mgr["p1"]
  IN /\ Len(M.heap) = 3
     /\ M.accounts = <<1, 3>>
     /\ M.heap[1].index = 0 /\ M.heap[3].index = 1
     /\ M.heap[2].lastRefreshError = InvalidGrantError
     /\ M.activeIndex = 1 /\ M.roundRobinCursor = 1
     /\ ~M.strategyInitialized
     /\ Strategy("p1") = "sticky"

\* C15: in every state of a process, and in every snapshot it has written,
\* activeIndex is a position of the account list, or 0 when the list is empty.
C15_ActiveIndexValid ==
  /\ \A p \in Procs : mgr[p].activeIndex \in ValidIndices(Count(mgr[p]))
  /\ disk.kind = "json" => disk.activeAccountIndex \in ValidIndices(Len(disk.accounts))

\* The snapshot written by the removal of the middle one of three accounts
\* has been loaded again: two accounts, activeIndex 1 in memory and on file.
C15_Witness ==
  LET M == mgr["p1"]
  IN /\ Len(M.heap) = 2
     /\ Count(M) = 2
     /\ M.heap[1].refreshToken = 1 /\ M.heap[2].refreshToken = 3
     /\ M.activeIndex = 1
     /\ disk.kind = "json" /\ disk.activeAccountIndex = 1

(****************** the account store, operation by operation **************)
MaxOps == 3

\* Credentials handed to addAccount: refresh tokens 1 and 2; no access token,
\* one that does not decode, or a JWT with or without the user id claim
RefreshTokens == {1, 2}
AccessTokens == {NoAccess, OpaqueAccess, Jwt(1, 1), Jwt(1, 2), Jwt(0, 1)}
ExpiryTimes == {0, 5}

\* Configurations of the store: both tracking modes, both removal policies
StoreConfigs ==
  [accountSelectionStrategy : {"sticky"}, pidOffsetEnabled : {FALSE},
   perModelRateLimits : BOOLEAN, removeOnInvalidGrant : BOOLEAN, pid : {1}]

InitStore ==
  /\ now = 1
  /\ disk = MissingFile
  /\ \E c \in StoreConfigs :
       cfg = [p \in Procs |-> IF p = "p1" THEN c ELSE DEFAULT_MULTI_ACCOUNT_CONFIG]
  /\ mgr = [p \in Procs |-> NewManager]
  /\ life = [p \in Procs |-> NewLife]
  /\ picks = [p \in Procs |-> <<>>]
  /\ th = EmptyThreads
  /\ gh = EmptyGhost
  /\ usage = NoUsage

StoreAdd ==
  /\ life["p1"].ops < MaxOps
  /\ \E rt \in RefreshTokens, at \in AccessTokens, ex \in ExpiryTimes :
       LET r == addAccount(mgr["p1"], disk, rt, at, ex)
       IN /\ Count(r.m) <= MaxAccounts
          /\ mgr' = [mgr EXCEPT !["p1"] = r.m]
          /\ disk' = r.d
          /\ life' = [life EXCEPT !["p1"].ops = @ + 1,
                                  !["p1"].last =
                                     [op |-> "addAccount", pre |-> mgr["p1"],
                                      refreshToken |-> rt, accessToken |-> at,
                                      expires |-> ex, res |-> r.res]]
  /\ UNCHANGED <<now, cfg, picks, th, gh, usage>>

StoreMarkRateLimited ==
  /\ life["p1"].ops < MaxOps
  /\ \E obj \in Pooled(mgr["p1"]), ra \in RetryAfters, model \in TrackedModels \cup {NoModel} :
       /\ mgr' = [mgr EXCEPT !["p1"] = markRateLimited(cfg["p1"], @, obj, ra, model, now)]
       /\ life' = [life EXCEPT !["p1"].ops = @ + 1,
                               !["p1"].last =
                                  [op |-> "markRateLimited", pre |-> mgr["p1"], obj |-> obj,
                                   retryAfterMs |-> ra, model |-> model, at |-> now]]
  /\ UNCHANGED <<now, disk, cfg, picks, th, gh, usage>>

StoreMarkRefreshFailed ==
  /\ life["p1"].ops < MaxOps
  /\ \E obj \in Pooled(mgr["p1"]), e \in ErrorTexts :
       LET r == markRefreshFailed(cfg["p1"], mgr["p1"], disk, obj, e)
       IN /\ mgr' = [mgr EXCEPT !["p1"] = r.m]
          /\ disk' = r.d
          /\ life' = [life EXCEPT !["p1"].ops = @ + 1,
                                  !["p1"].last =
                                     [op |-> "markRefreshFailed", pre |-> mgr["p1"],
                                      obj |-> obj, error |-> e]]
  /\ UNCHANGED <<now, cfg, picks, th, gh, usage>>

\* ensureValidToken up to its return or its await of the refresh collaborator
StoreEnsureBegin ==
  /\ life["p1"].ops < MaxOps
  /\ \E obj \in Pooled(mgr["p1"]) :
       LET r == EnsureBegin(mgr["p1"], obj, now)
       IN /\ mgr' = [mgr EXCEPT !["p1"] = r.m]
          /\ life' = [life EXCEPT !["p1"].ops = @ + 1,
                                  !["p1"].last =
                                     [op |-> "ensureValidToken", pre |-> mgr["p1"],
                                      obj |-> obj, out |-> r.out]]
  /\ UNCHANGED <<now, disk, cfg, picks, th, gh, usage>>

NextStore ==
  \/ StoreAdd
  \/ StoreEnsureBegin
  \/ StoreMarkRateLimited
  \/ StoreMarkRefreshFailed
  \/ Tick

SpecStore == InitStore /\ [][NextStore]_vars

\* The user id and the account id a credential carries (0: none)
CredentialUserId(accessToken) == IF accessToken.kind = "jwt" THEN accessToken.userId ELSE 0
CredentialAccountId(accessToken) == IF accessToken.kind = "jwt" THEN accessToken.accountId ELSE 0

\* The positions (1-based) of the entries of M a credential stands for: the
\* same (userId, accountId) pair when the credential and the entry both have
\* a user id, the same refresh token otherwise
SameAccount(M, refreshToken, accessToken) ==
  {k \in 1..Count(M) :
     LET a == At(M, k - 1)
     IN IF CredentialUserId(accessToken) # 0 /\ a.userId # 0
        THEN /\ a.userId = CredentialUserId(accessToken)
             /\ a.accountId = CredentialAccountId(accessToken)
        ELSE a.refreshToken = refreshToken}

\* C16: addAccount matches an entry by the (userId, accountId) pair when the
\* credential and the entry both have a user id, by the refresh token
\* otherwise. On a match the pool keeps its size and its objects, only the
\* matched entry changes, it takes the credential and its consecutiveFailures
\* is 0. Without a match one account is appended, with index equal to the
\* previous count, and no other entry changes. In both cases the pool file
\* holds the resulting pool when addAccount returns.
C16_AddAccountDeduplicates ==
  LET L == life["p1"].last  post == mgr["p1"] IN
  L.op = "addAccount" =>
    LET pre == L.pre
        same == SameAccount(pre, L.refreshToken, L.accessToken)
    IN /\ IF same # {}
          THEN LET o == pre.accounts[Min(same)] IN
               /\ L.res = o
               /\ post.accounts = pre.accounts
               /\ Len(post.heap) = Len(pre.heap)
               /\ \A x \in 1..Len(pre.heap) : x # o => post.heap[x] = pre.heap[x]
               /\ post.heap[o].consecutiveFailures = 0
               /\ post.heap[o].index = pre.heap[o].index
               /\ post.heap[o].refreshToken = L.refreshToken
               /\ post.heap[o].access =
                    IF L.accessToken = NoAccess THEN pre.heap[o].access ELSE L.accessToken
          ELSE /\ Count(post) = Count(pre) + 1
               /\ \A k \in 1..Count(pre) : post.accounts[k] = pre.accounts[k]
               /\ \A x \in 1..Len(pre.heap) : post.heap[x] = pre.heap[x]
               /\ post.accounts[Count(post)] = L.res
               /\ L.res \notin Pooled(pre)
               /\ At(post, Count(pre)).index = Count(pre)
               /\ At(post, Count(pre)).refreshToken = L.refreshToken
               /\ At(post, Count(pre)).consecutiveFailures = 0
       /\ disk.kind = "json"
       /\ disk.accounts = Serialized(post)
       /\ disk.activeAccountIndex = post.activeIndex

\* An entry that had failed is matched by its (userId, accountId) pair under
\* another refresh token: the pool keeps its one entry, which takes the new
\* refresh token, and the failure count is reset.
C16_Witness ==
  LET L == life["p1"].last  post == mgr["p1"] IN
  /\ L.op = "addAccount"
  /\ Count(L.pre) = 1
  /\ Count(post) = 1
  /\ CredentialUserId(L.accessToken) # 0
  /\ At(L.pre, 0).userId # 0
  /\ At(L.pre, 0).consecutiveFailures > 0
  /\ At(L.pre, 0).refreshToken # L.refreshToken
  /\ L.res = post.accounts[1]
  /\ At(post, 0).refreshToken = L.refreshToken
  /\ At(post, 0).consecutiveFailures = 0

\* The instants at which availability is asked
Times == 0..MaxTime + 2

\* C17: with per-model tracking enabled, markRateLimited(a, r, m) changes
\* only a.rateLimitResets[m], which becomes now + r: the global reset of a,
\* its resets for the other models, its other fields and the other accounts
\* are as before, and a is as available as before for every other model at
\* every instant. Without a model, or with per-model tracking disabled, only
\* a.globalRateLimitReset changes, to now + r, and a is unavailable for every
\* model, and for a request without a model, at every instant before it.
C17_PerModelRateLimits ==
  LET L == life["p1"].last  post == mgr["p1"]  c == cfg["p1"] IN
  L.op = "markRateLimited" =>
    LET pre == L.pre
        a == L.obj
        reset == L.at + L.retryAfterMs
    IN /\ post.accounts = pre.accounts
       /\ Len(post.heap) = Len(pre.heap)
       /\ \A x \in 1..Len(pre.heap) : x # a => post.heap[x] = pre.heap[x]
       /\ post.activeIndex = pre.activeIndex
       /\ post.roundRobinCursor = pre.roundRobinCursor
       /\ IF L.model # NoModel /\ c.perModelRateLimits
          THEN /\ post.heap[a].rateLimitResets[L.model] = reset
               /\ \A m2 \in TrackedModels \ {L.model} :
                    post.heap[a].rateLimitResets[m2] = pre.heap[a].rateLimitResets[m2]
               /\ post.heap[a].globalRateLimitReset = pre.heap[a].globalRateLimitReset
               /\ [post.heap[a] EXCEPT !.rateLimitResets = pre.heap[a].rateLimitResets]
                    = pre.heap[a]
               /\ \A m2 \in TrackedModels \ {L.model}, t \in Times :
                    isAccountAvailable(c, post.heap[a], m2, t)
                      = isAccountAvailable(c, pre.heap[a], m2, t)
          ELSE /\ post.heap[a].globalRateLimitReset = reset
               /\ [post.heap[a] EXCEPT !.globalRateLimitReset = pre.heap[a].globalRateLimitReset]
                    = pre.heap[a]
               /\ \A m2 \in TrackedModels \cup {NoModel}, t \in Times :
                    t < reset => ~isAccountAvailable(c, post.heap[a], m2, t)

\* An account whose global limit has passed is limited for model "m" alone:
\* it is unavailable for "m" and available for "n".
C17_Witness ==
  LET L == life["p1"].last  post == mgr["p1"]  c == cfg["p1"] IN
  /\ L.op = "markRateLimited"
  /\ c.perModelRateLimits
  /\ L.model = "m"
  /\ L.obj \in Pooled(post)
  /\ L.pre.heap[L.obj].globalRateLimitReset # 0
  /\ L.pre.heap[L.obj].globalRateLimitReset <= now
  /\ post.heap[L.obj].rateLimitResets["m"] > now
  /\ ~isAccountAvailable(c, post.heap[L.obj], "m", now)
  /\ isAccountAvailable(c, post.heap[L.obj], "n", now)

\* C18: markRefreshFailed adds one to the account's consecutiveFailures,
\* clears its isRefreshing and records the error text. The account leaves the
\* pool exactly when the text is the invalid-grant one and
\* removeOnInvalidGrant is enabled, and then the other accounts keep their
\* order; for any other failure the pool holds the same accounts in the same
\* order, and nothing else about them has changed.
C18_RefreshFailureCounted ==
  LET L == life["p1"].last  post == mgr["p1"]  c == cfg["p1"] IN
  L.op = "markRefreshFailed" =>
    LET pre == L.pre
        a == L.obj
    IN /\ post.heap[a].consecutiveFailures = pre.heap[a].consecutiveFailures + 1
       /\ ~post.heap[a].isRefreshing
       /\ post.heap[a].lastRefreshError = L.error
       /\ a \notin Pooled(post) <=> (L.error = InvalidGrantError /\ c.removeOnInvalidGrant)
       /\ post.accounts = SelectSeq(pre.accounts, LAMBDA x : x \in Pooled(post))
       /\ Pooled(pre) \ {a} \subseteq Pooled(post)
       /\ a \in Pooled(post) =>
            /\ \A x \in 1..Len(pre.heap) : x # a => post.heap[x] = pre.heap[x]
            /\ [post.heap[a] EXCEPT
                  !.consecutiveFailures = pre.heap[a].consecutiveFailures,
                  !.isRefreshing = pre.heap[a].isRefreshing,
                  !.lastRefreshError = pre.heap[a].lastRefreshError] = pre.heap[a]

\* With removeOnInvalidGrant disabled, a refresh that was in flight fails
\* with the invalid-grant text: the account stays in the pool, its count is
\* one more, its flag is cleared and the text is recorded.
C18_Witness ==
  LET L == life["p1"].last  post == mgr["p1"] IN
  /\ L.op = "markRefreshFailed"
  /\ ~cfg["p1"].removeOnInvalidGrant
  /\ L.error = InvalidGrantError
  /\ L.pre.heap[L.obj].isRefreshing
  /\ L.obj \in Pooled(post)
  /\ post.heap[L.obj].consecutiveFailures = 1
  /\ ~post.heap[L.obj].isRefreshing
  /\ post.heap[L.obj].lastRefreshError = InvalidGrantError

(************************ claims on token refresh **************************)
\* The requests of one process that await the refresh collaborator for
\* account object obj
Refreshing(p, obj) ==
  {t \in Threads : ProcOf(t) = p /\ th[t].pc = "er_refreshing" /\ th[t].account = obj}

\* C19: within one process, whatever the interleaving of its requests, at
\* most one refresh call per account is in flight at a time.
C19_OneRefreshInFlight ==
  \A p \in Procs : \A obj \in 1..Len(mgr[p].heap) : Cardinality(Refreshing(p, obj)) <= 1

\* Two requests of one process await the refresh of the same account, which
\* is in the pool.
C19_Witness ==
  \E obj \in Pooled(mgr["p1"]) : Cardinality(Refreshing("p1", obj)) = 2

(****************** requests when the pool file cannot be written **********)
\* String(err) of the exception writeFileSync throws
DiskError == "Error: EACCES: permission denied"

\* The result of a request whose loader.fetch promise is rejected
Rejected == "rejected"

\* Pool files of one or two accounts
SmallFiles == {f \in RequestFiles : Len(f.accounts) <= 2}

InitIO ==
  /\ now = 1
  /\ disk \in SmallFiles
  /\ \E c \in PluginConfigs :
       cfg = [p \in Procs |-> IF p = "p1" THEN c ELSE DEFAULT_MULTI_ACCOUNT_CONFIG]
  /\ mgr = [p \in Procs |-> IF p = "p1" THEN loadFromDisk(NewManager, disk) ELSE NewManager]
  /\ life = [p \in Procs |-> IF p = "p1" THEN [NewLife EXCEPT !.booted = TRUE] ELSE NewLife]
  /\ picks = [p \in Procs |-> <<>>]
  /\ th = [t \in Threads |-> NewThread(IF t = "t1" THEN "idle" ELSE "off")]
  /\ gh = EmptyGhost
  /\ usage = NoUsage

\* loader.fetch when the save of initializeStrategyState throws: the
\* exception leaves initializeStrategyState after activeIndex was advanced,
\* then getNextAvailableAccount, then loader.fetch, none of which catches it
FetchWriteFails(t) ==
  /\ th[t].pc \in {"idle", "done"}
  /\ gh[t].reqs < MaxRequests
  /\ \E model \in Models \cup {NoModel} :
       LET p == ProcOf(t)
           b == InitStrategyBegin(cfg[p], mgr[p], disk)
       IN /\ Count(mgr[p]) # 0
          /\ b.pending
          /\ mgr' = [mgr EXCEPT ![p] = b.m]
          /\ th' = [th EXCEPT ![t] = [NewThread("done") EXCEPT !.model = model, !.arg = model]]
          /\ gh' = [gh EXCEPT ![t] = [NewGhost EXCEPT !.reqs = gh[t].reqs + 1,
                                                      !.pool0 = Count(mgr[p]),
                                                      !.result = Rejected]]
          /\ picks' = [picks EXCEPT ![p] = <<>>]
  /\ UNCHANGED <<now, disk, cfg, life, usage>>

\* The refresh collaborator answers with new tokens and the save of
\* updateAccountTokens throws: the catch of ensureValidToken takes the
\* exception for a failure of the refresh
RefreshDoneWriteFails(t) ==
  /\ th[t].pc = "er_refreshing"
  /\ LET p == ProcOf(t)
     IN \E result \in RefreshResults(mgr[p].heap[th[t].account], now) :
          LET u == updateAccountTokens(mgr[p], th[t].account, result.access,
                                       result.refresh, result.expires)
              f == markRefreshFailed(cfg[p], u.m, disk, th[t].account, DiskError)
          IN /\ result.type = "success"
             /\ mgr' = [mgr EXCEPT ![p] = f.m]
             /\ disk' = f.d
             /\ th' = [th EXCEPT ![t].pc = "er_invalid"]
  /\ UNCHANGED <<now, cfg, life, picks, gh, usage>>

NextIO ==
  \/ \E t \in Threads : Fetch(t)
  \/ \E t \in Threads : FetchWriteFails(t)
  \/ \E t \in Threads : FetchGot(t)
  \/ \E t \in Threads : GnInit(t)
  \/ \E t \in Threads : GnScan(t)
  \/ \E t \in Threads : ExecStart(t)
  \/ \E t \in Threads : RefreshDone(t)
  \/ \E t \in Threads : RefreshDoneWriteFails(t)
  \/ \E t \in Threads : TokenInvalid(t)
  \/ \E t \in Threads : TokenInvalidGot(t)
  \/ \E t \in Threads : ExecValid(t)
  \/ \E t \in Threads : Response(t)
  \/ \E t \in Threads : RateLimited(t)
  \/ \E t \in Threads : RetryGot(t)
  \/ Tick

SpecIO == InitIO /\ [][NextIO]_vars

\* C20: a pool-file write that throws during a request, in strategy
\* initialization or right after a successful token refresh, does not change
\* the request's result: no request ends with the exception of the write, and
\* no account has the write's error recorded as its refresh failure.
C20_SaveFailureHarmless ==
  /\ \A t \in Threads : gh[t].result # Rejected
  /\ \A p \in Procs : \A obj \in 1..Len(mgr[p].heap) :
       mgr[p].heap[obj].lastRefreshError # DiskError

\* The only account of the pool was refreshed, the write failed, and the
\* request was answered that all accounts failed token refresh, without a
\* transport call: the account holds its new token and one failure.
C20_Witness ==
  /\ Done("t1")
  /\ gh["t1"].result = "401 All accounts failed token refresh"
  /\ gh["t1"].called = <<>>
  /\ Count(mgr["p1"]) = 1
  /\ At(mgr["p1"], 0).lastRefreshError = DiskError
  /\ At(mgr["p1"], 0).consecutiveFailures = 1
  /\ At(mgr["p1"], 0).expires > now + proactiveRefreshThresholdMs

(******************* claims on what the caller receives ********************)
\* C21 as stated: every response other than a 200 that a request returns is
\* the synthetic 503 of a selection that found no account, or the upstream
\* response the request received last.
C21_Original ==
  \A t \in Threads :
    (Done(t) /\ gh[t].result # "200") =>
      \/ gh[t].result = "503" /\ gh[t].nullAtStart
      \/ /\ gh[t].called # <<>>
         /\ th[t].status \in gh[t].seen
         /\ gh[t].result \in Statuses \ {"200", "404u"}
         /\ gh[t].result = (IF th[t].status = "404u" THEN "429" ELSE th[t].status)

\* C21: every response other than a 200 that a request returns is the
\* synthetic 503 of a first selection that found no account, one of the two
\* synthetic 401 responses of executeRequest (every account failed its token
\* refresh, or the account has no account id), or the upstream response the
\* request received last, a usage-limit 404 being handed on as a 429.
C21_NonOkResponses ==
  \A t \in Threads :
    (Done(t) /\ gh[t].result # "200") =>
      \/ gh[t].result = "503" /\ gh[t].nullAtStart /\ gh[t].called = <<>>
      \/ gh[t].result \in SyntheticResults
      \/ /\ gh[t].called # <<>>
         /\ th[t].status \in gh[t].seen
         /\ gh[t].result \in Statuses \ {"200", "404u"}
         /\ gh[t].result = (IF th[t].status = "404u" THEN "429" ELSE th[t].status)

\* A request that was answered 429 on one account, moved to the next, whose
\* token refresh failed, and was answered with the synthetic 401 because no
\* other account was offered.
C21_Witness ==
  \E t \in Threads :
    /\ Done(t)
    /\ gh[t].seen = {"429"}
    /\ gh[t].rec429 = 1
    /\ Len(gh[t].called) = 1
    /\ gh[t].result = "401 All accounts failed token refresh"

(********************* the pool file read by loadFromDisk ******************)
\* A file JSON.parse rejects, and a snapshot of another format version
GarbageFile == [kind |-> "garbage", version |-> 0, accounts |-> <<>>, activeAccountIndex |-> 0]
OtherVersionFile ==
  [kind |-> "json", version |-> 2,
   accounts |-> <<ProfiledAccount(0, [failures |-> 0, expires |-> 0, id |-> TRUE])>>,
   activeAccountIndex |-> 0]

\* What loadFromDisk may find: no file, an unparseable one, another version,
\* or a version-1 snapshot of one or two accounts without failures
LoadFiles ==
  {MissingFile, GarbageFile, OtherVersionFile} \cup
  {f \in SmallFiles : \A i \in 1..Len(f.accounts) :
     f.accounts[i].consecutiveFailures = 0 /\ f.accounts[i].expires = 0}

InitLoad ==
  /\ now = 1
  /\ disk \in LoadFiles
  /\ cfg = [p \in Procs |-> DEFAULT_MULTI_ACCOUNT_CONFIG]
  /\ mgr = [p \in Procs |-> NewManager]
  /\ life = [p \in Procs |-> NewLife]
  /\ picks = [p \in Procs |-> <<>>]
  /\ th = EmptyThreads
  /\ gh = EmptyGhost
  /\ usage = NoUsage

\* The credential file of the host program: absent, unparseable, or holding
\* an openai entry of type oauth or api with its tokens
AuthFiles ==
  {[kind |-> "missing", type |-> "", refresh |-> 0, access |-> NoAccess, expires |-> 0],
   [kind |-> "garbage", type |-> "", refresh |-> 0, access |-> NoAccess, expires |-> 0]}
  \cup [kind : {"json"}, type : {"oauth", "api"}, refresh : RefreshTokens \cup {0},
        access : AccessTokens, expires : ExpiryTimes]

importFromOpenCodeAuth(M, d, auth) ==
  IF auth.kind # "json" THEN [m |-> M, d |-> d]
  ELSE IF auth.type = "oauth" /\ auth.refresh # 0
  THEN IF \E k \in 1..Count(M) : At(M, k - 1).refreshToken = auth.refresh
       THEN [m |-> M, d |-> d]
       ELSE LET r == addAccount(M, d, auth.refresh, auth.access, auth.expires)
            IN [m |-> r.m, d |-> r.d]
  ELSE [m |-> M, d |-> d]

\* importFromOpenCodeAuth called on the manager
ImportAuth ==
  /\ life["p1"].ops < MaxOps
  /\ \E auth \in AuthFiles :
       LET r == importFromOpenCodeAuth(mgr["p1"], disk, auth)
       IN /\ Count(r.m) <= MaxAccounts
          /\ mgr' = [mgr EXCEPT !["p1"] = r.m]
          /\ disk' = r.d
          /\ life' = [life EXCEPT !["p1"].ops = @ + 1,
                                  !["p1"].last = [op |-> "importFromOpenCodeAuth",
                                                  pre |-> mgr["p1"], auth |-> auth]]
  /\ UNCHANGED <<now, cfg, picks, th, gh, usage>>

\* loadFromDisk called on the manager, whatever it holds
LoadFromDisk ==
  /\ life["p1"].ops < MaxOps
  /\ mgr' = [mgr EXCEPT !["p1"] = loadFromDisk(@, disk)]
  /\ life' = [life EXCEPT !["p1"].ops = @ + 1,
                          !["p1"].booted = TRUE,
                          !["p1"].last = [op |-> "loadFromDisk", pre |-> mgr["p1"],
                                          file |-> disk]]
  /\ UNCHANGED <<now, disk, cfg, picks, th, gh, usage>>

\* The user removes the file, or something else replaces it
FileReplaced ==
  /\ \E f \in LoadFiles : f # disk /\ disk' = f
  /\ UNCHANGED <<now, cfg, mgr, life, picks, th, gh, usage>>

NextLoad ==
  \/ LoadFromDisk
  \/ ImportAuth
  \/ StoreAdd
  \/ FileReplaced

SpecLoad == InitLoad /\ [][NextLoad]_vars

\* The pool file as loadFromDisk cannot use it: missing, unparseable, or of a
\* version other than 1
Unusable(f) == f.kind = "missing" \/ f.kind = "garbage" \/ f.version # 1

\* C22: whenever loadFromDisk finds the pool file missing, unparseable or of
\* a version other than 1, the pool afterwards is empty and activeIndex is 0,
\* also when the manager held accounts before the call.
C22_LoadResetsPool ==
  LET L == life["p1"].last IN
  (L.op = "loadFromDisk" /\ Unusable(L.file)) =>
    Count(mgr["p1"]) = 0 /\ mgr["p1"].activeIndex = 0

\* A manager that held two accounts has loaded a missing file and holds them
\* still.
C22_Witness ==
  LET L == life["p1"].last IN
  /\ L.op = "loadFromDisk"
  /\ L.file = MissingFile
  /\ Count(L.pre) = 2
  /\ Count(mgr["p1"]) = 2

\* C23: importFromOpenCodeAuth with an OAuth credential whose refresh token
\* no pooled account holds adds a new account: the pool grows by exactly one
\* and the tokens, expiry and failure counter of every account it held are
\* as before; with a refresh token that is already held the manager is
\* unchanged, and importing the same credential again changes nothing.
C23_ImportAddsOnce ==
  LET L == life["p1"].last  post == mgr["p1"] IN
  (L.op = "importFromOpenCodeAuth" /\ L.auth.kind = "json"
     /\ L.auth.type = "oauth" /\ L.auth.refresh # 0) =>
    LET pre == L.pre IN
    /\ IF \E k \in 1..Count(pre) : At(pre, k - 1).refreshToken = L.auth.refresh
       THEN post = pre
       ELSE /\ Count(post) = Count(pre) + 1
            /\ At(post, Count(pre)).refreshToken = L.auth.refresh
            /\ \A k \in 1..Count(pre) :
                 /\ post.accounts[k] = pre.accounts[k]
                 /\ At(post, k - 1).refreshToken = At(pre, k - 1).refreshToken
                 /\ At(post, k - 1).access = At(pre, k - 1).access
                 /\ At(post, k - 1).expires = At(pre, k - 1).expires
                 /\ At(post, k - 1).consecutiveFailures = At(pre, k - 1).consecutiveFailures
    /\ importFromOpenCodeAuth(post, disk, L.auth).m = post

\* The pool holds one account of user 1; a credential of the same user and
\* workspace under another refresh token is imported: the pool still holds
\* one account, whose refresh token is now the imported one.
C23_Witness ==
  LET L == life["p1"].last  post == mgr["p1"] IN
  /\ L.op = "importFromOpenCodeAuth"
  /\ L.auth.kind = "json" /\ L.auth.type = "oauth"
  /\ Count(L.pre) = 1
  /\ At(L.pre, 0).userId # 0
  /\ At(L.pre, 0).refreshToken # L.auth.refresh
  /\ L.auth.refresh # 0
  /\ Count(post) = 1
  /\ At(post, 0).refreshToken = L.auth.refresh

(************** two processes saving into the same pool file ***************)
\* A refresh token after its rotation by the refresh endpoint
Rotated(refreshToken) == refreshToken + 10

\* Both processes run the hybrid strategy, whose initialization saves
SharedConfig == [DEFAULT_MULTI_ACCOUNT_CONFIG EXCEPT !.accountSelectionStrategy = "hybrid"]

InitShared ==
  /\ now = 1
  /\ disk = MissingFile
  /\ cfg = [p \in Procs |-> SharedConfig]
  /\ mgr = [p \in Procs |-> NewManager]
  /\ life = [p \in Procs |-> NewLife]
  /\ picks = [p \in Procs |-> <<>>]
  /\ th = EmptyThreads
  /\ gh = EmptyGhost
  /\ usage = NoUsage

\* The histories after process p has written the file from memory M: p is the
\* process that saved last, and M is what it held when it saved
Saved(p, M) ==
  [q \in Procs |->
     IF q = p THEN [life[q] EXCEPT !.ops = @ + 1,
                                   !.last = [op |-> "saveToDisk", pre |-> M]]
     ELSE [life[q] EXCEPT !.last = NoOperation]]

SharedLoad(p) ==
  /\ life[p].ops < MaxOps
  /\ mgr' = [mgr EXCEPT ![p] = loadFromDisk(@, disk)]
  /\ life' = [life EXCEPT ![p].ops = @ + 1]
  /\ UNCHANGED <<now, disk, cfg, picks, th, gh, usage>>

SharedAdd(p) ==
  /\ life[p].ops < MaxOps
  /\ \E rt \in RefreshTokens :
       LET r == addAccount(mgr[p], disk, rt, NoAccess, 0)
       IN /\ Count(r.m) <= MaxAccounts
          /\ mgr' = [mgr EXCEPT ![p] = r.m]
          /\ disk' = r.d
          /\ life' = Saved(p, r.m)
  /\ UNCHANGED <<now, cfg, picks, th, gh, usage>>

\* A refresh of a pooled account has succeeded with rotated tokens
SharedRefreshed(p) ==
  /\ life[p].ops < MaxOps
  /\ \E obj \in Pooled(mgr[p]) :
       LET a == mgr[p].heap[obj]
           u == updateAccountTokens(mgr[p], obj, Jwt(a.refreshToken, a.refreshToken),
                                    Rotated(a.refreshToken), now + TokenLifetime)
       IN /\ a.refreshToken \in RefreshTokens
          /\ mgr' = [mgr EXCEPT ![p] = u.m]
          /\ disk' = u.d
          /\ life' = Saved(p, u.m)
  /\ UNCHANGED <<now, cfg, picks, th, gh, usage>>

\* A refresh of a pooled account has failed with invalid_grant
SharedRemoved(p) ==
  /\ life[p].ops < MaxOps
  /\ \E obj \in Pooled(mgr[p]) :
       LET r == markRefreshFailed(cfg[p], mgr[p], disk, obj, InvalidGrantError)
       IN /\ mgr' = [mgr EXCEPT ![p] = r.m]
          /\ disk' = r.d
          /\ life' = Saved(p, r.m)
  /\ UNCHANGED <<now, cfg, picks, th, gh, usage>>

\* getNextAvailableAccount when the strategy initialization saves: the file
\* is written before the selection moves activeIndex again
SharedSelect(p) ==
  /\ life[p].ops < MaxOps
  /\ Count(mgr[p]) # 0
  /\ InitStrategyBegin(cfg[p], mgr[p], disk).pending
  /\ LET r == getNextAvailableAccount(cfg[p], mgr[p], disk, NoModel, now)
     IN /\ mgr' = [mgr EXCEPT ![p] = r.m]
        /\ disk' = r.d
        /\ life' = Saved(p, InitStrategyBegin(cfg[p], mgr[p], disk).m)
  /\ UNCHANGED <<now, cfg, picks, th, gh, usage>>

NextShared ==
  \/ \E p \in Procs : SharedLoad(p)
  \/ \E p \in Procs : SharedAdd(p)
  \/ \E p \in Procs : SharedRefreshed(p)
  \/ \E p \in Procs : SharedRemoved(p)
  \/ \E p \in Procs : SharedSelect(p)

SpecShared == InitShared /\ [][NextShared]_vars

\* The refresh tokens of a list of stored accounts
TokensOf(accounts) == {accounts[i].refreshToken : i \in 1..Len(accounts)}

\* C24: after any interleaving of saves by two processes sharing the pool
\* file, the file holds the complete pool the process that saved last had in
\* memory when it saved, and its activeIndex: whatever the other process
\* holds or wrote before is in the file only if the last writer held it too.
C24_LastWriteWins ==
  \A p \in Procs :
    life[p].last.op = "saveToDisk" =>
      /\ disk.kind = "json"
      /\ disk.version = 1
      /\ disk.accounts = Serialized(life[p].last.pre)
      /\ disk.activeAccountIndex = life[p].last.pre.activeIndex

\* p2 saved last; p1 holds an account that p2 does not, and a rotated token
\* of an account that p2 holds under its old token: the file has neither.
C24_Witness ==
  /\ life["p2"].last.op = "saveToDisk"
  /\ disk.accounts = Serialized(mgr["p2"])
  /\ \E i \in 0..Count(mgr["p1"]) - 1 :
       /\ At(mgr["p1"], i).refreshToken \in RefreshTokens
       /\ At(mgr["p1"], i).refreshToken \notin TokensOf(disk.accounts)
  /\ \E i \in 0..Count(mgr["p1"]) - 1 :
       /\ At(mgr["p1"], i).refreshToken \notin RefreshTokens
       /\ At(mgr["p1"], i).refreshToken \notin TokensOf(disk.accounts)
       /\ At(mgr["p1"], i).refreshToken \in {Rotated(x) : x \in TokensOf(disk.accounts)}

(********************** the usage snapshot tracker *************************)
\* Times are minutes, as everywhere: the staleness TTL is 15 minutes and the
\* retention window 7 days.
STALENESS_TTL_MS == 15
SNAPSHOT_RETENTION_MS == 10080

MaxUpdates == 2
MaxAdvances == 2

\* Snapshot keys: getSnapshotKey is a function of the account, so one key
\* stands for one account
Keys == {"a", "b"}

\* A rate-limit window of a snapshot that is null.  Of the fields of a
\* window usedPercent and windowMinutes are kept; resetAt and the credits
\* block are filled in the same way and never read by the tracker.
NoWindow == [set |-> FALSE, usedPercent |-> 0, windowMinutes |-> 0]

\* The absence of an entry of the snapshots map, and the map without entries
NoSnapshot == [held |-> FALSE, updatedAt |-> 0, primary |-> NoWindow, secondary |-> NoWindow]
EmptyMap == [k \in Keys |-> NoSnapshot]

\* The snapshots file: "missing", "garbage" (not a JSON array), or "json",
\* an array of entries
SnapshotsFile(kind, map) == [kind |-> kind, map |-> map]

\* parseNum of a header that is absent or not a number
NoNumber == -1000

\* updateFromHeaders, the entry it sets: per window, used is the parsed
\* used-percent header and window the parsed window-minutes header
updateFromHeaders(map, key, headers, t) ==
  LET HeaderWindow(existing, used, window) ==
        IF used # NoNumber \/ window # NoNumber
        THEN [set |-> TRUE,
              usedPercent |->
                Max2(0, Min({100, IF used # NoNumber THEN used ELSE existing.usedPercent})),
              windowMinutes |->
                Max2(0, IF window # NoNumber THEN window ELSE existing.windowMinutes)]
        ELSE existing
  IN [map EXCEPT ![key] =
        [held |-> TRUE, updatedAt |-> t,
         primary |-> HeaderWindow(map[key].primary, headers.primaryUsed,
                                  headers.primaryWindow),
         secondary |-> HeaderWindow(map[key].secondary, headers.secondaryUsed,
                                    headers.secondaryWindow)]]

\* updateFromSnapshot, the entry it sets from a backend answer
updateFromSnapshot(map, key, snapshot, t) ==
  LET BackendWindow(existing, answer) ==
        IF answer.set
        THEN [set |-> TRUE,
              usedPercent |-> answer.usedPercent,
              windowMinutes |-> IF answer.windowMinutes # 0 THEN answer.windowMinutes
                                ELSE existing.windowMinutes]
        ELSE existing
  IN [map EXCEPT ![key] =
        [held |-> TRUE, updatedAt |-> t,
         primary |-> BackendWindow(map[key].primary, snapshot.primary),
         secondary |-> BackendWindow(map[key].secondary, snapshot.secondary)]]

\* getSnapshot, stale from the TTL on
getSnapshot_StaleAtTtl(map, key, t) ==
  IF ~map[key].held THEN [found |-> FALSE, snapshot |-> NoSnapshot, isStale |-> FALSE]
  ELSE [found |-> TRUE, snapshot |-> map[key],
        isStale |-> t - map[key].updatedAt >= STALENESS_TTL_MS]

\* getSnapshot: null, or the entry with its staleness
getSnapshot(map, key, t) ==
  IF ~map[key].held THEN [found |-> FALSE, snapshot |-> NoSnapshot, isStale |-> FALSE]
  ELSE [found |-> TRUE, snapshot |-> map[key],
        isStale |-> t - map[key].updatedAt > STALENESS_TTL_MS]

\* saveToDisk, the merge with a valid on-disk map, memory winning ties
MergeOnSave_MemoryWinsTies(memory, diskMap, t) ==
  LET merged == [k \in Keys |->
                   IF memory[k].held /\ (~diskMap[k].held
                                          \/ memory[k].updatedAt >= diskMap[k].updatedAt)
                   THEN memory[k] ELSE diskMap[k]]
  IN [k \in Keys |->
        IF merged[k].held /\ t - merged[k].updatedAt > SNAPSHOT_RETENTION_MS
        THEN NoSnapshot ELSE merged[k]]

\* saveToDisk, the merge with a valid on-disk map, dropping entries from the
\* age of the retention window on
MergeOnSave_PrunesAtWindow(memory, diskMap, t) ==
  LET merged == [k \in Keys |->
                   IF memory[k].held /\ (~diskMap[k].held
                                          \/ memory[k].updatedAt > diskMap[k].updatedAt)
                   THEN memory[k] ELSE diskMap[k]]
  IN [k \in Keys |->
        IF merged[k].held /\ t - merged[k].updatedAt >= SNAPSHOT_RETENTION_MS
        THEN NoSnapshot ELSE merged[k]]

\* saveToDisk, the merge with a valid on-disk map: memory replaces a disk
\* entry when the key is not on disk or memory is strictly newer, then
\* entries older than the retention window are deleted
MergeOnSave(memory, diskMap, t) ==
  LET merged == [k \in Keys |->
                   IF memory[k].held /\ (~diskMap[k].held
                                          \/ memory[k].updatedAt > diskMap[k].updatedAt)
                   THEN memory[k] ELSE diskMap[k]]
  IN [k \in Keys |->
        IF merged[k].held /\ t - merged[k].updatedAt > SNAPSHOT_RETENTION_MS
        THEN NoSnapshot ELSE merged[k]]

\* A saveToDisk activation: idle, awaiting the read of the file, or awaiting
\* the write of the temporary file and its rename.  data is the serialized
\* map; found, disk and before remember whether the read found an array,
\* which, and the memory it was merged with at time at; further marks a save
\* that no update started.
IdleSave ==
  [pc |-> "idle", data |-> EmptyMap, found |-> FALSE, disk |-> EmptyMap,
   before |-> EmptyMap, at |-> 0, further |-> FALSE]

\* saveToDisk up to its first await: without a file the map is serialized as
\* it is, otherwise the file is read
BeginSave(memory, file, further) ==
  IF file.kind = "missing"
  THEN [IdleSave EXCEPT !.pc = "writing", !.data = memory, !.further = further]
  ELSE [IdleSave EXCEPT !.pc = "reading", !.further = further]

\* The trackers of the processes (snapshots, whether ensureInitialized has
\* run, the save under way), the file, and what is remembered: how many
\* updates a process has made and how often the clock was advanced, the
\* greatest updatedAt recorded per key, whether updates have ended (settled)
\* and which processes have saved once more since, the file as a process left
\* it when nothing has happened since (prev), and the last two saves in a row
\* with the time of the second one's read (twice).
NewUsage(file) ==
  [file |-> file,
   snapshots |-> [p \in Procs |-> EmptyMap],
   init |-> [p \in Procs |-> FALSE],
   save |-> [p \in Procs |-> IdleSave],
   updates |-> [p \in Procs |-> 0],
   advances |-> 0,
   newest |-> [k \in Keys |-> 0],
   settled |-> FALSE,
   further |-> [p \in Procs |-> "no"],
   prev |-> [p \in Procs |-> [set |-> FALSE, map |-> EmptyMap]],
   twice |-> [set |-> FALSE, first |-> EmptyMap, second |-> EmptyMap, at |-> 0]]

InitUsage ==
  /\ now = 1
  /\ disk = MissingFile
  /\ cfg = [p \in Procs |-> DEFAULT_MULTI_ACCOUNT_CONFIG]
  /\ mgr = [p \in Procs |-> NewManager]
  /\ life = [p \in Procs |-> NewLife]
  /\ picks = [p \in Procs |-> <<>>]
  /\ th = EmptyThreads
  /\ gh = EmptyGhost
  /\ usage \in {NewUsage(SnapshotsFile(kind, EmptyMap)) : kind \in {"missing", "garbage"}}

\* ensureInitialized, first call: loadFromDisk takes the map of a file that
\* holds an array
UsageInit(p) ==
  /\ ~usage.init[p]
  /\ ~usage.settled
  /\ usage' = [usage EXCEPT !.init[p] = TRUE,
                            !.snapshots[p] = IF usage.file.kind = "json"
                                             THEN usage.file.map ELSE @]
  /\ UNCHANGED <<now, disk, cfg, mgr, life, picks, th, gh>>

\* updateFromHeaders with a primary and a secondary used-percent header out
\* of the given values: the snapshot is set and saveToDisk runs to its first
\* await
UsageUpdate(p, primaries, secondaries) ==
  /\ usage.init[p]
  /\ ~usage.settled
  /\ usage.save[p].pc = "idle"
  /\ usage.updates[p] < MaxUpdates
  /\ \E key \in Keys, primaryUsed \in primaries, secondaryUsed \in secondaries :
       LET headers == [primaryUsed |-> primaryUsed, primaryWindow |-> NoNumber,
                       secondaryUsed |-> secondaryUsed, secondaryWindow |-> NoNumber]
           memory == updateFromHeaders(usage.snapshots[p], key, headers, now)
       IN usage' = [usage EXCEPT !.snapshots[p] = memory,
                                 !.save[p] = BeginSave(memory, usage.file, FALSE),
                                 !.updates[p] = @ + 1,
                                 !.newest[key] = Max2(@, now),
                                 !.prev[p] = [set |-> FALSE, map |-> EmptyMap]]
  /\ UNCHANGED <<now, disk, cfg, mgr, life, picks, th, gh>>

\* fetchFromBackend, the usage query answered: updateFromSnapshot sets the
\* snapshot from the answer's windows and saveToDisk runs to its first await
UsageFetched(p) ==
  /\ usage.init[p]
  /\ ~usage.settled
  /\ usage.save[p].pc = "idle"
  /\ usage.updates[p] < MaxUpdates
  /\ \E key \in Keys,
        primary \in {NoWindow,
                     [set |-> TRUE, usedPercent |-> 45, windowMinutes |-> 300],
                     [set |-> TRUE, usedPercent |-> 150, windowMinutes |-> 0]},
        secondary \in {NoWindow,
                       [set |-> TRUE, usedPercent |-> -50, windowMinutes |-> 0]} :
       LET memory == updateFromSnapshot(usage.snapshots[p], key,
                                        [primary |-> primary, secondary |-> secondary], now)
       IN usage' = [usage EXCEPT !.snapshots[p] = memory,
                                 !.save[p] = BeginSave(memory, usage.file, FALSE),
                                 !.updates[p] = @ + 1,
                                 !.newest[key] = Max2(@, now),
                                 !.prev[p] = [set |-> FALSE, map |-> EmptyMap]]
  /\ UNCHANGED <<now, disk, cfg, mgr, life, picks, th, gh>>

\* saveToDisk called with nothing new, once per process, after the updates
\* have ended and their saves have completed
UsageSave(p) ==
  /\ usage.init[p]
  /\ usage.save[p].pc = "idle"
  /\ usage.further[p] = "no"
  /\ \A q \in Procs : usage.save[q].pc = "idle" \/ usage.save[q].further
  /\ usage' = [usage EXCEPT !.settled = TRUE,
                            !.further[p] = "running",
                            !.save[p] = BeginSave(usage.snapshots[p], usage.file, TRUE)]
  /\ UNCHANGED <<now, disk, cfg, mgr, life, picks, th, gh>>

\* The read of the file completes: a valid map is merged with memory, pruned
\* and becomes the memory; anything else leaves memory as it is.  The map is
\* serialized.
UsageSaveRead(p) ==
  /\ usage.save[p].pc = "reading"
  /\ LET valid == usage.file.kind = "json"
         memory == IF valid THEN MergeOnSave(usage.snapshots[p], usage.file.map, now)
                   ELSE usage.snapshots[p]
     IN usage' = [usage EXCEPT !.snapshots[p] = memory,
                               !.save[p] = [@ EXCEPT !.pc = "writing", !.data = memory,
                                                     !.found = valid,
                                                     !.disk = usage.file.map,
                                                     !.before = usage.snapshots[p],
                                                     !.at = now]]
  /\ UNCHANGED <<now, disk, cfg, mgr, life, picks, th, gh>>

\* The temporary file is written and renamed over the snapshots file
UsageSaveRename(p) ==
  /\ usage.save[p].pc = "writing"
  /\ usage' = [usage EXCEPT
                 !.file = SnapshotsFile("json", usage.save[p].data),
                 !.save[p] = IdleSave,
                 !.further[p] = IF usage.save[p].further THEN "done" ELSE @,
                 !.prev = [q \in Procs |->
                             IF q = p THEN [set |-> TRUE, map |-> usage.save[p].data]
                             ELSE [set |-> FALSE, map |-> EmptyMap]],
                 !.twice = IF usage.prev[p].set
                           THEN [set |-> TRUE, first |-> usage.prev[p].map,
                                 second |-> usage.save[p].data, at |-> usage.save[p].at]
                           ELSE @]
  /\ UNCHANGED <<now, disk, cfg, mgr, life, picks, th, gh>>

\* Time passes, by one of the given numbers of minutes
AdvanceBy(steps) ==
  /\ usage.advances < MaxAdvances
  /\ \E d \in steps : now' = now + d
  /\ usage' = [usage EXCEPT !.advances = @ + 1]
  /\ UNCHANGED <<disk, cfg, mgr, life, picks, th, gh>>

\* Two processes record used-percent headers into one snapshots file
NextUsage ==
  \/ \E p \in Procs : UsageInit(p)
  \/ \E p \in Procs : UsageUpdate(p, {10, 20}, {NoNumber})
  \/ \E p \in Procs : UsageSave(p)
  \/ \E p \in Procs : UsageSaveRead(p)
  \/ \E p \in Procs : UsageSaveRename(p)
  \/ AdvanceBy({1, SNAPSHOT_RETENTION_MS})

SpecUsage == InitUsage /\ [][NextUsage]_vars

\* One process records headers and backend answers of any percentage
NextTracker ==
  \/ UsageInit("p1")
  \/ UsageUpdate("p1", {NoNumber, 45, 150}, {NoNumber, -50})
  \/ UsageFetched("p1")
  \/ UsageSaveRead("p1")
  \/ UsageSaveRename("p1")
  \/ AdvanceBy({1, STALENESS_TTL_MS, SNAPSHOT_RETENTION_MS})

SpecTracker == InitUsage /\ [][NextTracker]_vars

(******************* claims on the usage snapshot file *********************)
\* C25: with two processes recording snapshots into the file without
\* locking, in every interleaving of the steps of their saves, once every
\* process has completed one further save with nothing new, the file holds
\* for every key the snapshot with the greatest updatedAt any process
\* recorded for it (unless it is older than the retention window).
C25_Converges ==
  (\A p \in Procs : usage.further[p] = "done") =>
    \A k \in Keys :
      (usage.newest[k] # 0 /\ now - usage.newest[k] <= SNAPSHOT_RETENTION_MS) =>
        /\ usage.file.kind = "json"
        /\ usage.file.map[k].held
        /\ usage.file.map[k].updatedAt = usage.newest[k]

\* No time has passed, both processes have saved once more, and a key that
\* was recorded is not in the file at all.
C25_Witness ==
  /\ \A p \in Procs : usage.further[p] = "done"
  /\ now = 1
  /\ usage.file.kind = "json"
  /\ \E k \in Keys : usage.newest[k] # 0 /\ ~usage.file.map[k].held

\* C26: a save that finds a valid on-disk map serializes, for every key held
\* in memory or on disk, the entry with the newer updatedAt (a key held only
\* on disk is kept, memory wins only when strictly newer), without the
\* entries older than the retention window, and the in-memory map equals what
\* is written.
C26_MergeOnSave ==
  \A p \in Procs :
    (usage.save[p].pc = "writing" /\ usage.save[p].found) =>
      /\ \A k \in Keys :
           LET memoryValue == usage.save[p].before[k]
               diskValue == usage.save[p].disk[k]
               newer == IF ~memoryValue.held THEN diskValue
                        ELSE IF ~diskValue.held THEN memoryValue
                        ELSE IF memoryValue.updatedAt > diskValue.updatedAt THEN memoryValue
                        ELSE diskValue
           IN IF newer.held /\ usage.save[p].at - newer.updatedAt <= SNAPSHOT_RETENTION_MS
              THEN usage.save[p].data[k] = newer
              ELSE ~usage.save[p].data[k].held
      /\ usage.snapshots[p] = usage.save[p].data

\* A save is about to write a map in which the disk's entry was kept against
\* a different memory entry of the same updatedAt, next to a key held only on
\* disk.
C26_Witness ==
  \E p \in Procs :
    /\ usage.save[p].pc = "writing"
    /\ usage.save[p].found
    /\ \E k \in Keys :
         /\ usage.save[p].before[k].held
         /\ usage.save[p].disk[k].held
         /\ usage.save[p].before[k].updatedAt = usage.save[p].disk[k].updatedAt
         /\ usage.save[p].before[k] # usage.save[p].disk[k]
         /\ usage.save[p].data[k] = usage.save[p].disk[k]
    /\ \E k \in Keys :
         /\ ~usage.save[p].before[k].held
         /\ usage.save[p].disk[k].held
         /\ usage.save[p].data[k] = usage.save[p].disk[k]

\* C27 as stated: when a process saves twice in a row, with no update of its
\* own and no write of another process in between, every key's persisted
\* entry after the second save is what it was after the first.
C27_Original ==
  usage.twice.set => \A k \in Keys : usage.twice.second[k] = usage.twice.first[k]

\* C27: when a process saves twice in a row, with no update of its own and
\* no write of another process in between, every key's persisted entry after
\* the second save is what it was after the first, or the entry has become
\* older than the retention window by the second save and is gone.
C27_SaveTwice ==
  usage.twice.set =>
    \A k \in Keys :
      \/ usage.twice.second[k] = usage.twice.first[k]
      \/ /\ usage.twice.first[k].held
         /\ ~usage.twice.second[k].held
         /\ usage.twice.at - usage.twice.first[k].updatedAt > SNAPSHOT_RETENTION_MS

\* A process has saved twice in a row a map that holds an entry exactly as
\* old as the retention window at the second save.
C27_Witness ==
  /\ usage.twice.set
  /\ \E k \in Keys :
       /\ usage.twice.first[k].held
       /\ usage.twice.second[k] = usage.twice.first[k]
       /\ usage.twice.at - usage.twice.first[k].updatedAt = SNAPSHOT_RETENTION_MS

(********************* claims on the stored snapshots **********************)
\* C28: every snapshot the tracker holds or has written has its primary and
\* secondary usedPercent inside [0,100], whether set from response headers or
\* from a backend usage answer.
C28_Clamped ==
  \A k \in Keys :
    \A s \in {usage.snapshots["p1"][k], usage.file.map[k]} :
      /\ s.primary.usedPercent \in 0..100
      /\ s.secondary.usedPercent \in 0..100

\* The file holds a snapshot with a primary usedPercent of 150 and a
\* secondary usedPercent of -50.
C28_Witness ==
  \E k \in Keys :
    /\ usage.file.map[k].held
    /\ usage.file.map[k].primary.usedPercent = 150
    /\ usage.file.map[k].secondary.usedPercent = -50

\* C29 as stated: for an account whose snapshot was last recorded at time T,
\* getSnapshot reports isStale=false up to T + 15 minutes and isStale=true
\* at every later time.
C29_Original ==
  \A k \in Keys :
    usage.newest[k] # 0 =>
      LET got == getSnapshot(usage.snapshots["p1"], k, now)
      IN /\ got.found
         /\ got.isStale = (now - usage.newest[k] > STALENESS_TTL_MS)

\* C29: for an account whose snapshot was last recorded at time T,
\* getSnapshot reports isStale=false up to T + 15 minutes and isStale=true
\* at every later time at which the tracker still holds the snapshot; it
\* returns null only once the snapshot is older than the retention window.
C29_Staleness ==
  \A k \in Keys :
    usage.newest[k] # 0 =>
      LET got == getSnapshot(usage.snapshots["p1"], k, now)
      IN IF got.found
         THEN got.isStale = (now - usage.newest[k] > STALENESS_TTL_MS)
         ELSE now - usage.newest[k] > SNAPSHOT_RETENTION_MS

\* A snapshot is sixteen minutes old and reported stale.
C29_Witness ==
  \E k \in Keys :
    /\ usage.newest[k] # 0
    /\ now - usage.newest[k] = STALENESS_TTL_MS + 1
    /\ getSnapshot(usage.snapshots["p1"], k, now).found
    /\ getSnapshot(usage.snapshots["p1"], k, now).isStale

(****************** claims on rate limits and the pool file ****************)
\* C30: once a request that met a 429 has returned, every account the 429
\* marking left rate-limited for a model is rate-limited for that model in
\* the pool file too: a process that starts now and loads the file finds the
\* account unavailable for the model.
C30_RateLimitPersisted ==
  \A t \in Threads :
    Done(t) =>
      LET p == ProcOf(t)
          started == loadFromDisk(NewManager, disk)
      IN \A i \in 0..Count(mgr[p]) - 1 :
           \A model \in Models :
             At(mgr[p], i).rateLimitResets[model] > now =>
               /\ i < Count(started)
               /\ ~isAccountAvailable(cfg[p], At(started, i), model, now)

\* A request has returned the 429 of its only transport call; the account is
\* unavailable for the model in the process that made the call and available
\* for it in a process that loads the file now.
C30_Witness ==
  \E t \in Threads :
    LET p == ProcOf(t)
        started == loadFromDisk(NewManager, disk)
    IN /\ Done(t)
       /\ gh[t].result = "429"
       /\ Len(gh[t].called) = 1
       /\ \E i \in 0..Count(mgr[p]) - 1 :
            /\ mgr[p].accounts[i + 1] = gh[t].called[1]
            /\ ~isAccountAvailable(cfg[p], At(mgr[p], i), th[t].model, now)
            /\ i < Count(started)
            /\ At(started, i).refreshToken = At(mgr[p], i).refreshToken
            /\ isAccountAvailable(cfg[p], At(started, i), th[t].model, now)

(********************** claims on the selection scan ***********************)
\* C32: a getNextAvailableAccount call that finds at least one account
\* available for the requested model returns an available account, the first
\* one in wrap-around order from the scan start (roundRobinCursor under
\* round-robin, activeIndex otherwise, as strategy initialization leaves
\* them), and leaves activeIndex at its index.
C32_FirstAvailableFromStart ==
  [][\A p \in Procs :
       Len(picks'[p]) = Len(picks[p]) + 1 =>
         LET pick == picks'[p][Len(picks'[p])]
             n == Count(mgr[p])
             started == initializeStrategyState(cfg[p], mgr[p], disk).m
             start == IF Strategy(p) = "round-robin" THEN started.roundRobinCursor
                      ELSE started.activeIndex
             available == {i \in 0..n - 1 : Usable(cfg[p], At(mgr[p], i), pick.model, now)}
         IN available # {} =>
              /\ pick.idx \in available
              /\ \A i \in available :
                   (pick.idx - start) % n <= (i - start) % n
              /\ mgr'[p].activeIndex = pick.idx]_vars

\* The last selection of three, under round-robin over three accounts, found
\* the account at the cursor rate-limited and returned the one after it.
C32_Witness ==
  /\ Strategy("p1") = "round-robin"
  /\ Count(mgr["p1"]) = 3
  /\ Len(picks["p1"]) = 3
  /\ picks["p1"][1].idx = 0 /\ picks["p1"][2].idx = 1
  /\ picks["p1"][3].avail = {0, 1} /\ picks["p1"][3].idx = 0
  /\ mgr["p1"].activeIndex = 0

(************************ claims on the fallback ***************************)
\* C33: a getNextAvailableAccount call that finds no account available
\* returns, among the accounts below the failure ceiling, the one whose
\* combined reset time max(globalRateLimitReset, rateLimitResets[model]) is
\* smallest, and of several with that reset time the one with the lowest
\* index.
C33_LeastRateLimited ==
  [][\A t \in Threads :
       (th[t].pc = "gn_scan" /\ th'[t].pc = th[t].ret) =>
         LET M == mgr[ProcOf(t)]
             model == th[t].arg
             combined(i) == Max2(At(M, i).globalRateLimitReset,
                                 IF model # NoModel THEN At(M, i).rateLimitResets[model]
                                 ELSE 0)
             below == {i \in 0..Count(M) - 1 :
                         At(M, i).consecutiveFailures < FailureCeiling}
         IN (Available(cfg[ProcOf(t)], M, model, now) = {} /\ below # {}) =>
              /\ th'[t].next # Null
              /\ M.heap[th'[t].next].index \in below
              /\ \A j \in below :
                   /\ combined(M.heap[th'[t].next].index) <= combined(j)
                   /\ combined(j) = combined(M.heap[th'[t].next].index)
                        => M.heap[th'[t].next].index <= j]_vars

\* A reselection has come back with the first of two accounts that are
\* rate-limited until the same time, no account being available.
C33_Witness ==
  \E t \in Threads :
    LET M == mgr[ProcOf(t)]
    IN /\ th[t].pc \in {"er_429_got", "er_401_got", "er_tok_got"}
       /\ th[t].next # Null
       /\ Available(cfg[ProcOf(t)], M, th[t].arg, now) = {}
       /\ \E j \in 0..Count(M) - 1 :
            /\ j > M.heap[th[t].next].index
            /\ At(M, j).consecutiveFailures < FailureCeiling
            /\ ResetTime(cfg[ProcOf(t)], At(M, j), th[t].arg)
                 = ResetTime(cfg[ProcOf(t)], M.heap[th[t].next], th[t].arg)

(******************* claims on the accounts of a request *******************)
\* C36: within one logical request no account receives more than one
\* transport call.
C36_OneCallPerAccount ==
  \A t \in Threads :
    \A i, j \in 1..Len(gh[t].called) :
      i # j => gh[t].called[i] # gh[t].called[j]

\* A request answered 429 three times has returned; its third transport call
\* went to the account of its first one.
C36_Witness ==
  \E t \in Threads :
    /\ Done(t)
    /\ gh[t].seen = {"429"}
    /\ gh[t].result = "429"
    /\ Len(gh[t].called) = 3
    /\ gh[t].called[3] = gh[t].called[1]

(****************** a process restarted from the pool file *****************)
\* Requests t1 and t3 are made to one plugin process over a pool of two
\* accounts, both due for refresh: the first one, the active one, was added
\* without an access token.  The process that replaces it is configured alike.
InitRestart ==
  /\ now = 1
  /\ \E f \in ConcurrentFiles :
       /\ f.activeAccountIndex = 0
       /\ \A i \in 1..Len(f.accounts) : f.accounts[i].expires # 0
       /\ disk = [f EXCEPT !.accounts[1].access = NoAccess]
  /\ \E c \in PluginConfigs : cfg = [p \in Procs |-> c]
  /\ mgr = [p \in Procs |-> IF p = "p1" THEN loadFromDisk(NewManager, disk) ELSE NewManager]
  /\ life = [p \in Procs |-> IF p = "p1" THEN [NewLife EXCEPT !.booted = TRUE] ELSE NewLife]
  /\ picks = [p \in Procs |-> <<>>]
  /\ th = [t \in Threads |-> NewThread(IF ProcOf(t) = "p1" THEN "idle" ELSE "off")]
  /\ gh = EmptyGhost
  /\ usage = NoUsage

\* The first process is killed, its requests with it, and the second one
\* starts: the plugin constructs its manager and loads the pool file
Restart ==
  /\ th["t2"].pc = "off"
  /\ mgr' = [p \in Procs |-> IF p = "p2" THEN loadFromDisk(NewManager, disk) ELSE NewManager]
  /\ life' = [p \in Procs |-> IF p = "p2" THEN [NewLife EXCEPT !.booted = TRUE] ELSE NewLife]
  /\ th' = [t \in Threads |-> NewThread(IF t = "t2" THEN "idle" ELSE "off")]
  /\ gh' = EmptyGhost
  /\ picks' = [p \in Procs |-> <<>>]
  /\ UNCHANGED <<now, disk, cfg, usage>>

\* A refresh collaborator that never answers
Continue_RefreshHangs(t) ==
  \/ FetchGot(t)
  \/ GnInit(t)
  \/ GnScan(t)
  \/ ExecStart(t)
  \/ TokenInvalid(t)
  \/ TokenInvalidGot(t)
  \/ ExecValid(t)
  \/ ResponseAuth(t)
  \/ RetryGot(t)

\* A request goes on: a continuation is run, the transport or the refresh
\* collaborator returns
Continue(t) ==
  \/ FetchGot(t)
  \/ GnInit(t)
  \/ GnScan(t)
  \/ ExecStart(t)
  \/ RefreshDone(t)
  \/ TokenInvalid(t)
  \/ TokenInvalidGot(t)
  \/ ExecValid(t)
  \/ ResponseAuth(t)
  \/ RetryGot(t)

\* The requests name a model; of the two requests of the first process, t1 is
\* the one made first
NextRestart ==
  \/ \E t \in Threads :
       /\ t = "t3" => gh["t1"].reqs > 0
       /\ Fetch(t)
       /\ th'[t].model # NoModel
  \/ \E t \in Threads : Continue(t)
  \/ Restart

\* Every request that can go on does go on
SpecRestart ==
  InitRestart /\ [][NextRestart]_vars /\ \A t \in Threads : WF_vars(Continue(t))

(*********************** claims on the refresh flag ************************)
\* C35: in every state of a process, an account of its pool has
\* isRefreshing=true only while a refresh call for it is in flight in that
\* process.
C35_FlagOnlyInFlight ==
  \A p \in Procs :
    \A obj \in Pooled(mgr[p]) :
      mgr[p].heap[obj].isRefreshing => Refreshing(p, obj) # {}

\* The second process has loaded the file and has made no request yet; an
\* account of its pool has isRefreshing=true.
C35_Witness ==
  /\ th["t2"].pc = "idle"
  /\ gh["t2"].reqs = 0
  /\ \E obj \in Pooled(mgr["p2"]) : mgr["p2"].heap[obj].isRefreshing

C38_NoDuplicates ==
  \A p \in Procs :
    \A i, j \in 0..Count(mgr[p]) - 1 :
      i # j =>
        /\ At(mgr[p], i).refreshToken # At(mgr[p], j).refreshToken
        /\ ~(/\ At(mgr[p], i).userId # 0
             /\ At(mgr[p], i).userId = At(mgr[p], j).userId
             /\ At(mgr[p], i).accountId = At(mgr[p], j).accountId)

\* addAccount has just updated an existing entry it found by its (userId,
\* accountId) pair, and the refresh token it stored there is also the one of
\* another entry.
C38_Witness ==
  /\ life["p1"].last.op = "addAccount"
  /\ life["p1"].last.res \in Pooled(life["p1"].last.pre)
  /\ life["p1"].last.pre.heap[life["p1"].last.res].refreshToken # life["p1"].last.refreshToken
  /\ \E obj \in Pooled(mgr["p1"]) \ {life["p1"].last.res} :
       mgr["p1"].heap[obj].refreshToken = life["p1"].last.refreshToken

(************************ claims on returned 429s **************************)
\* C40: when a request returns a response with status 429, the account of
\* its last transport call is marked rate-limited, for a model or globally,
\* with a reset time in the future.
C40_Returned429Marked ==
  [][\A t \in Threads :
       (~Done(t) /\ Done(t)' /\ gh'[t].result = "429" /\ gh'[t].called # <<>>) =>
         LET a == mgr'[ProcOf(t)].heap[gh'[t].called[Len(gh'[t].called)]]
         IN \/ a.globalRateLimitReset > now'
            \/ \E m \in DOMAIN a.rateLimitResets : a.rateLimitResets[m] > now']_vars

\* A request has returned 429 for an upstream usage-limit 404, its only
\* answer, and the account that gave it carries no reset time at all.
C40_Witness ==
  \E t \in Threads :
    /\ Done(t) /\ gh[t].result = "429" /\ gh[t].seen = {"404u"}
    /\ Len(gh[t].called) = 1
    /\ LET a == mgr[ProcOf(t)].heap[gh[t].called[1]]
       IN /\ a.globalRateLimitReset = 0
          /\ \A m \in DOMAIN a.rateLimitResets : a.rateLimitResets[m] = 0

(********************* claims on rate-limited accounts *********************)
\* C37: no transport call for a model is issued on an account whose reset
\* time for that model lies in the future while another account of the pool
\* is available for the model.
C37_NoCallOnLimitedAccount ==
  [][\A t \in Threads :
       (th[t].pc = "er_valid" /\ th'[t].pc = "er_fetching" /\ th[t].model # NoModel) =>
         LET p == ProcOf(t)
         IN ~(/\ mgr[p].heap[th[t].account].rateLimitResets[th[t].model] > now
              /\ OtherOnOffer(cfg[p], mgr[p], th[t].account, th[t].model, now))]_vars

\* A transport call is in flight on an account that a 429 of the same request
\* has rate-limited for the model until later, reselected after a
\* token-validation failure, while another account is available for the model.
C37_Witness ==
  \E t \in Threads :
    LET p == ProcOf(t)
    IN /\ th[t].pc = "er_fetching"
       /\ th[t].model # NoModel
       /\ gh[t].recTok >= 1
       /\ Len(gh[t].called) >= 2
       /\ gh[t].called[1] = th[t].account
       /\ mgr[p].heap[th[t].account].rateLimitResets[th[t].model] > now
       /\ OtherOnOffer(cfg[p], mgr[p], th[t].account, th[t].model, now)

(************************** claims on a re-login ***************************)
\* C39: an addAccount call that matches an existing account and updates it in
\* place does not change which account the next getNextAvailableAccount call
\* returns, when no account is failing or rate-limited.
C39_ReloginKeepsNextAccount ==
  [][(/\ SelAdd
      /\ mgr'["p1"].accounts = mgr["p1"].accounts
      /\ \A i \in 0..Count(mgr["p1"]) - 1 :
           /\ At(mgr["p1"], i).consecutiveFailures = 0
           /\ Usable(cfg["p1"], At(mgr["p1"], i), "m", now)) =>
       \A model \in Models \cup {NoModel} :
         getNextAvailableAccount(cfg["p1"], mgr'["p1"], disk', model, now).res
           = getNextAvailableAccount(cfg["p1"], mgr["p1"], disk, model, now).res]_vars

\* Hybrid strategy, two healthy accounts, the account at index 1 active and
\* the strategy state reset: the next call advances once more and returns the
\* account at index 0.
C39_Witness ==
  /\ Strategy("p1") = "hybrid"
  /\ Count(mgr["p1"]) = 2
  /\ picks["p1"] = <<>>
  /\ ~mgr["p1"].strategyInitialized
  /\ mgr["p1"].activeIndex = 1
  /\ disk.kind = "json" /\ Len(disk.accounts) = 2
  /\ \A i \in 0..1 : /\ At(mgr["p1"], i).consecutiveFailures = 0
                     /\ Usable(cfg["p1"], At(mgr["p1"], i), "m", now)
  /\ getNextAvailableAccount(cfg["p1"], mgr["p1"], disk, "m", now).res = mgr["p1"].accounts[1]

(******************* claims on the strategy initialization *****************)
\* C34: the hybrid advance of activeIndex is applied once: no invocation of
\* initializeStrategyState applies it while another invocation of the same
\* process, which has applied it, still awaits its save.
C34_AdvanceOnce ==
  [][\A t \in Threads :
       (th[t].pc # "gn_init" /\ th'[t].pc = "gn_init") =>
         \A u \in Threads \ {t} :
           ProcOf(u) = ProcOf(t) => th[u].pc # "gn_init"]_vars

\* Two requests of one process are both inside initializeStrategyState, at
\* the await of the save: each has advanced activeIndex, and with two accounts
\* the index is back where the file had it.
C34_Witness ==
  /\ Strategy("p1") = "hybrid"
  /\ th["t1"].pc = "gn_init"
  /\ th["t3"].pc = "gn_init"
  /\ Count(mgr["p1"]) = 2
  /\ ~mgr["p1"].strategyInitialized

====
